---- MODULE Spec2Model ----
(***************************************************************************)
(* Model of the outreach dispatch engine of scripts/send_emails.py (Spec,   *)
(* FairSpec, AddressSpec on a second set of items and ledgers, and         *)
(* EncodingSpec on items with a text that UTF-8 cannot encode or with a    *)
(* subject that the email package refuses to write) and of the             *)
(* journalist-request sync engine of scripts/find_prospects_haro.py        *)
(* (SyncSpec, FairSyncSpec).  Each specification holds the other engine's  *)
(* variables fixed.                                                        *)
(*                                                                         *)
(* The markdown store (data/haro_emails.md) is the sequence of its lines;  *)
(* dates are counted in days; the IMAP mailbox is the sequence of its      *)
(* messages, a message's id being its position.                            *)
(*                                                                         *)
(* Text is modelled as a sequence of characters, so that str.lower(),       *)
(* str.strip(), str.split() and the two regular expressions of the script  *)
(* are computed character by character.  JSON null and the                 *)
(* empty string are both falsy in every test the script applies to `to`    *)
(* and `contact_form_url`, and are both modelled by the empty sequence.    *)
(* Where the script tells them apart (the message handed to MIMEText, a    *)
(* cell that csv.DictReader did not find on a short row), the missing      *)
(* value is JsonNull resp. NoCell.                                         *)
(*                                                                         *)
(* The ledger (data/outreach_log.csv) is its first line, which             *)
(* csv.DictReader takes for the column names, and the sequence of its data *)
(* rows; of a row the site, contact and status cells are kept, the         *)
(* timestamp and the notes stand for themselves (the script writes them    *)
(* and never reads them back).  log_submission and get_already_contacted   *)
(* are defined on every such file (absent, of no bytes, without a final    *)
(* line end, with rows of fewer cells); the specifications start from      *)
(* files as the script writes them: absent, or the header line and         *)
(* complete rows.  File-system errors on the ledger are not modelled.      *)
(*                                                                         *)
(* send_emails.py line 149 names SMTP_FROM_NAME as a default argument,     *)
(* which the module never defines (line 45 defines SENDER_NAME): loading   *)
(* the script raises NameError.  The model describes the functions as      *)
(* written, i.e. the behaviour once that name is bound.                    *)
(***************************************************************************)
EXTENDS Integers, Sequences, FiniteSets, TLC

(***************************************************************************)
(* Bounds of the model.                                                    *)
(***************************************************************************)
MaxBatch == 2
MaxRuns == 2
MaxLedger == 4
MaxMail == 2
MaxDay == 1
MaxSyncRuns == 2

(***************************************************************************)
(* Characters and the str methods the script uses.                         *)
(***************************************************************************)
LowerLetters ==
    <<"a","b","c","d","e","f","g","h","i","j","k","l","m",
      "n","o","p","q","r","s","t","u","v","w","x","y","z">>
UpperLetters ==
    <<"A","B","C","D","E","F","G","H","I","J","K","L","M",
      "N","O","P","Q","R","S","T","U","V","W","X","Y","Z">>
Digits == {"0","1","2","3","4","5","6","7","8","9"}

Range(s) == {s[i] : i \in DOMAIN s}
Letters == Range(LowerLetters) \cup Range(UpperLetters)
Alnum == Letters \cup Digits

(***************************************************************************)
(* A character is a string: the character itself when it is a printable    *)
(* character of Basic Latin or Latin-1 (the backquote and the soft hyphen  *)
(* excepted), the escapes "\t", "\n", "\f", "\r", and for any other        *)
(* character the text "chr(n)" with its code point n in decimal.  Latin1   *)
(* lists the characters of the code points 1 to 255.                       *)
(***************************************************************************)
Latin1 ==
    << "chr(1)", "chr(2)", "chr(3)", "chr(4)", "chr(5)", "chr(6)", "chr(7)",
       "chr(8)", "\t", "\n", "chr(11)", "\f", "\r", "chr(14)", "chr(15)",
       "chr(16)", "chr(17)", "chr(18)", "chr(19)", "chr(20)", "chr(21)",
       "chr(22)", "chr(23)", "chr(24)", "chr(25)", "chr(26)", "chr(27)",
       "chr(28)", "chr(29)", "chr(30)", "chr(31)", " ", "!", "\"", "#", "$", "%",
       "&", "'", "(", ")", "*", "+", ",", "-", ".", "/", "0", "1", "2", "3", "4",
       "5", "6", "7", "8", "9", ":", ";", "<", "=", ">", "?", "@", "A", "B", "C",
       "D", "E", "F", "G", "H", "I", "J", "K", "L", "M", "N", "O", "P", "Q", "R",
       "S", "T", "U", "V", "W", "X", "Y", "Z", "[", "\\", "]", "^", "_",
       "chr(96)", "a", "b", "c", "d", "e", "f", "g", "h", "i", "j", "k", "l", "m",
       "n", "o", "p", "q", "r", "s", "t", "u", "v", "w", "x", "y", "z", "{", "|",
       "}", "~", "chr(127)", "chr(128)", "chr(129)", "chr(130)", "chr(131)",
       "chr(132)", "chr(133)", "chr(134)", "chr(135)", "chr(136)", "chr(137)",
       "chr(138)", "chr(139)", "chr(140)", "chr(141)", "chr(142)", "chr(143)",
       "chr(144)", "chr(145)", "chr(146)", "chr(147)", "chr(148)", "chr(149)",
       "chr(150)", "chr(151)", "chr(152)", "chr(153)", "chr(154)", "chr(155)",
       "chr(156)", "chr(157)", "chr(158)", "chr(159)", "chr(160)", "¡", "¢", "£",
       "¤", "¥", "¦", "§", "¨", "©", "ª", "«", "¬", "chr(173)", "®", "¯", "°",
       "±", "²", "³", "´", "µ", "¶", "·", "¸", "¹", "º", "»", "¼", "½", "¾", "¿",
       "À", "Á", "Â", "Ã", "Ä", "Å", "Æ", "Ç", "È", "É", "Ê", "Ë", "Ì", "Í", "Î",
       "Ï", "Ð", "Ñ", "Ò", "Ó", "Ô", "Õ", "Ö", "×", "Ø", "Ù", "Ú", "Û", "Ü", "Ý",
       "Þ", "ß", "à", "á", "â", "ã", "ä", "å", "æ", "ç", "è", "é", "ê", "ë", "ì",
       "í", "î", "ï", "ð", "ñ", "ò", "ó", "ô", "õ", "ö", "÷", "ø", "ù", "ú", "û",
       "ü", "ý", "þ", "ÿ" >>

\* chr(n)
Chr(n) == IF n \in DOMAIN Latin1 THEN Latin1[n] ELSE "chr(" \o ToString(n) \o ")"

\* the characters of the code points in the given ranges <<first, last>>
CharsIn(ranges) ==
    UNION {{Chr(n) : n \in ranges[k][1]..ranges[k][2]} : k \in DOMAIN ranges}

(***************************************************************************)
(* Encoding.  The standard output and the ledger file are text streams in  *)
(* UTF-8 with strict error handling, which has no bytes for a surrogate    *)
(* code point (U+D800 to U+DFFF): a print or a csv writerow of a text that *)
(* holds one raises UnicodeEncodeError and writes nothing of that text.    *)
(* A str read from JSON holds a surrogate where the file has an unpaired   *)
(* \uD800 escape.                                                          *)
(***************************************************************************)
Surrogates == CharsIn(<< <<55296, 57343>> >>)

\* text.encode("utf-8") returns
Encodable(text) == \A i \in DOMAIN text : text[i] \notin Surrogates

\* the characters of a header that the email package writes as they are:
\* ASCII, and the surrogates that stand for an undecoded byte (U+DC80 to
\* U+DCFF, surrogateescape)
HeaderBytes == CharsIn(<< <<0, 127>>, <<56448, 56575>> >>)

(***************************************************************************)
(* The character data of the str methods (CPython 3.11, Unicode 14.0), by  *)
(* ranges of code points.                                                  *)
(***************************************************************************)
\* str.isspace(): the characters str.strip() removes
Whitespace ==
    CharsIn(
    << <<9, 13>>, <<28, 32>>, <<133, 133>>, <<160, 160>>, <<5760, 5760>>,
       <<8192, 8202>>, <<8232, 8233>>, <<8239, 8239>>, <<8287, 8287>>,
       <<12288, 12288>> >>)

\* the characters that str.lower() replaces by one other character:
\* <<first, last, step, delta>> stands for the code points first,
\* first + step, ..., last, each lowered to the code point delta further
ToLowerRuns ==
    << <<65, 90, 1, 32>>, <<192, 214, 1, 32>>, <<216, 222, 1, 32>>,
       <<256, 302, 2, 1>>, <<306, 310, 2, 1>>, <<313, 327, 2, 1>>,
       <<330, 374, 2, 1>>, <<376, 376, 1, -121>>, <<377, 381, 2, 1>>,
       <<385, 385, 1, 210>>, <<386, 388, 2, 1>>, <<390, 390, 1, 206>>,
       <<391, 391, 1, 1>>, <<393, 394, 1, 205>>, <<395, 395, 1, 1>>,
       <<398, 398, 1, 79>>, <<399, 399, 1, 202>>, <<400, 400, 1, 203>>,
       <<401, 401, 1, 1>>, <<403, 403, 1, 205>>, <<404, 404, 1, 207>>,
       <<406, 406, 1, 211>>, <<407, 407, 1, 209>>, <<408, 408, 1, 1>>,
       <<412, 412, 1, 211>>, <<413, 413, 1, 213>>, <<415, 415, 1, 214>>,
       <<416, 420, 2, 1>>, <<422, 422, 1, 218>>, <<423, 423, 1, 1>>,
       <<425, 425, 1, 218>>, <<428, 428, 1, 1>>, <<430, 430, 1, 218>>,
       <<431, 431, 1, 1>>, <<433, 434, 1, 217>>, <<435, 437, 2, 1>>,
       <<439, 439, 1, 219>>, <<440, 440, 1, 1>>, <<444, 444, 1, 1>>,
       <<452, 452, 1, 2>>, <<453, 453, 1, 1>>, <<455, 455, 1, 2>>,
       <<456, 456, 1, 1>>, <<458, 458, 1, 2>>, <<459, 475, 2, 1>>,
       <<478, 494, 2, 1>>, <<497, 497, 1, 2>>, <<498, 500, 2, 1>>,
       <<502, 502, 1, -97>>, <<503, 503, 1, -56>>, <<504, 542, 2, 1>>,
       <<544, 544, 1, -130>>, <<546, 562, 2, 1>>, <<570, 570, 1, 10795>>,
       <<571, 571, 1, 1>>, <<573, 573, 1, -163>>, <<574, 574, 1, 10792>>,
       <<577, 577, 1, 1>>, <<579, 579, 1, -195>>, <<580, 580, 1, 69>>,
       <<581, 581, 1, 71>>, <<582, 590, 2, 1>>, <<880, 882, 2, 1>>,
       <<886, 886, 1, 1>>, <<895, 895, 1, 116>>, <<902, 902, 1, 38>>,
       <<904, 906, 1, 37>>, <<908, 908, 1, 64>>, <<910, 911, 1, 63>>,
       <<913, 929, 1, 32>>, <<931, 939, 1, 32>>, <<975, 975, 1, 8>>,
       <<984, 1006, 2, 1>>, <<1012, 1012, 1, -60>>, <<1015, 1015, 1, 1>>,
       <<1017, 1017, 1, -7>>, <<1018, 1018, 1, 1>>, <<1021, 1023, 1, -130>>,
       <<1024, 1039, 1, 80>>, <<1040, 1071, 1, 32>>, <<1120, 1152, 2, 1>>,
       <<1162, 1214, 2, 1>>, <<1216, 1216, 1, 15>>, <<1217, 1229, 2, 1>>,
       <<1232, 1326, 2, 1>>, <<1329, 1366, 1, 48>>, <<4256, 4293, 1, 7264>>,
       <<4295, 4295, 1, 7264>>, <<4301, 4301, 1, 7264>>, <<5024, 5103, 1, 38864>>,
       <<5104, 5109, 1, 8>>, <<7312, 7354, 1, -3008>>, <<7357, 7359, 1, -3008>>,
       <<7680, 7828, 2, 1>>, <<7838, 7838, 1, -7615>>, <<7840, 7934, 2, 1>>,
       <<7944, 7951, 1, -8>>, <<7960, 7965, 1, -8>>, <<7976, 7983, 1, -8>>,
       <<7992, 7999, 1, -8>>, <<8008, 8013, 1, -8>>, <<8025, 8031, 2, -8>>,
       <<8040, 8047, 1, -8>>, <<8072, 8079, 1, -8>>, <<8088, 8095, 1, -8>>,
       <<8104, 8111, 1, -8>>, <<8120, 8121, 1, -8>>, <<8122, 8123, 1, -74>>,
       <<8124, 8124, 1, -9>>, <<8136, 8139, 1, -86>>, <<8140, 8140, 1, -9>>,
       <<8152, 8153, 1, -8>>, <<8154, 8155, 1, -100>>, <<8168, 8169, 1, -8>>,
       <<8170, 8171, 1, -112>>, <<8172, 8172, 1, -7>>, <<8184, 8185, 1, -128>>,
       <<8186, 8187, 1, -126>>, <<8188, 8188, 1, -9>>, <<8486, 8486, 1, -7517>>,
       <<8490, 8490, 1, -8383>>, <<8491, 8491, 1, -8262>>, <<8498, 8498, 1, 28>>,
       <<8544, 8559, 1, 16>>, <<8579, 8579, 1, 1>>, <<9398, 9423, 1, 26>>,
       <<11264, 11311, 1, 48>>, <<11360, 11360, 1, 1>>,
       <<11362, 11362, 1, -10743>>, <<11363, 11363, 1, -3814>>,
       <<11364, 11364, 1, -10727>>, <<11367, 11371, 2, 1>>,
       <<11373, 11373, 1, -10780>>, <<11374, 11374, 1, -10749>>,
       <<11375, 11375, 1, -10783>>, <<11376, 11376, 1, -10782>>,
       <<11378, 11378, 1, 1>>, <<11381, 11381, 1, 1>>,
       <<11390, 11391, 1, -10815>>, <<11392, 11490, 2, 1>>,
       <<11499, 11501, 2, 1>>, <<11506, 11506, 1, 1>>, <<42560, 42604, 2, 1>>,
       <<42624, 42650, 2, 1>>, <<42786, 42798, 2, 1>>, <<42802, 42862, 2, 1>>,
       <<42873, 42875, 2, 1>>, <<42877, 42877, 1, -35332>>,
       <<42878, 42886, 2, 1>>, <<42891, 42891, 1, 1>>,
       <<42893, 42893, 1, -42280>>, <<42896, 42898, 2, 1>>,
       <<42902, 42920, 2, 1>>, <<42922, 42922, 1, -42308>>,
       <<42923, 42923, 1, -42319>>, <<42924, 42924, 1, -42315>>,
       <<42925, 42925, 1, -42305>>, <<42926, 42926, 1, -42308>>,
       <<42928, 42928, 1, -42258>>, <<42929, 42929, 1, -42282>>,
       <<42930, 42930, 1, -42261>>, <<42931, 42931, 1, 928>>,
       <<42932, 42946, 2, 1>>, <<42948, 42948, 1, -48>>,
       <<42949, 42949, 1, -42307>>, <<42950, 42950, 1, -35384>>,
       <<42951, 42953, 2, 1>>, <<42960, 42960, 1, 1>>, <<42966, 42968, 2, 1>>,
       <<42997, 42997, 1, 1>>, <<65313, 65338, 1, 32>>, <<66560, 66599, 1, 40>>,
       <<66736, 66771, 1, 40>>, <<66928, 66938, 1, 39>>, <<66940, 66954, 1, 39>>,
       <<66956, 66962, 1, 39>>, <<66964, 66965, 1, 39>>, <<68736, 68786, 1, 64>>,
       <<71840, 71871, 1, 32>>, <<93760, 93791, 1, 32>>,
       <<125184, 125217, 1, 34>> >>
ToLowerPairs ==
    UNION {LET r == ToLowerRuns[k]
           IN  {<<Chr(r[1] + r[3] * j), Chr(r[1] + r[3] * j + r[4])>> :
                   j \in 0..((r[2] - r[1]) \div r[3])} :
           k \in DOMAIN ToLowerRuns}
ToLowerFrom == {p[1] : p \in ToLowerPairs}

\* the cased characters (lowercase, uppercase and titlecase letters)
Cased ==
    CharsIn(
    << <<65, 90>>, <<97, 122>>, <<170, 170>>, <<181, 181>>, <<186, 186>>,
       <<192, 214>>, <<216, 246>>, <<248, 442>>, <<444, 447>>, <<452, 659>>,
       <<661, 696>>, <<704, 705>>, <<736, 740>>, <<837, 837>>, <<880, 883>>,
       <<886, 887>>, <<890, 893>>, <<895, 895>>, <<902, 902>>, <<904, 906>>,
       <<908, 908>>, <<910, 929>>, <<931, 1013>>, <<1015, 1153>>, <<1162, 1327>>,
       <<1329, 1366>>, <<1376, 1416>>, <<4256, 4293>>, <<4295, 4295>>,
       <<4301, 4301>>, <<4304, 4346>>, <<4349, 4351>>, <<5024, 5109>>,
       <<5112, 5117>>, <<7296, 7304>>, <<7312, 7354>>, <<7357, 7359>>,
       <<7424, 7615>>, <<7680, 7957>>, <<7960, 7965>>, <<7968, 8005>>,
       <<8008, 8013>>, <<8016, 8023>>, <<8025, 8025>>, <<8027, 8027>>,
       <<8029, 8029>>, <<8031, 8061>>, <<8064, 8116>>, <<8118, 8124>>,
       <<8126, 8126>>, <<8130, 8132>>, <<8134, 8140>>, <<8144, 8147>>,
       <<8150, 8155>>, <<8160, 8172>>, <<8178, 8180>>, <<8182, 8188>>,
       <<8305, 8305>>, <<8319, 8319>>, <<8336, 8348>>, <<8450, 8450>>,
       <<8455, 8455>>, <<8458, 8467>>, <<8469, 8469>>, <<8473, 8477>>,
       <<8484, 8484>>, <<8486, 8486>>, <<8488, 8488>>, <<8490, 8493>>,
       <<8495, 8500>>, <<8505, 8505>>, <<8508, 8511>>, <<8517, 8521>>,
       <<8526, 8526>>, <<8544, 8575>>, <<8579, 8580>>, <<9398, 9449>>,
       <<11264, 11492>>, <<11499, 11502>>, <<11506, 11507>>, <<11520, 11557>>,
       <<11559, 11559>>, <<11565, 11565>>, <<42560, 42605>>, <<42624, 42653>>,
       <<42786, 42887>>, <<42891, 42894>>, <<42896, 42954>>, <<42960, 42961>>,
       <<42963, 42963>>, <<42965, 42969>>, <<42997, 42998>>, <<43000, 43002>>,
       <<43824, 43866>>, <<43868, 43880>>, <<43888, 43967>>, <<64256, 64262>>,
       <<64275, 64279>>, <<65313, 65338>>, <<65345, 65370>>, <<66560, 66639>>,
       <<66736, 66771>>, <<66776, 66811>>, <<66928, 66938>>, <<66940, 66954>>,
       <<66956, 66962>>, <<66964, 66965>>, <<66967, 66977>>, <<66979, 66993>>,
       <<66995, 67001>>, <<67003, 67004>>, <<67456, 67456>>, <<67459, 67461>>,
       <<67463, 67504>>, <<67506, 67514>>, <<68736, 68786>>, <<68800, 68850>>,
       <<71840, 71903>>, <<93760, 93823>>, <<119808, 119892>>, <<119894, 119964>>,
       <<119966, 119967>>, <<119970, 119970>>, <<119973, 119974>>,
       <<119977, 119980>>, <<119982, 119993>>, <<119995, 119995>>,
       <<119997, 120003>>, <<120005, 120069>>, <<120071, 120074>>,
       <<120077, 120084>>, <<120086, 120092>>, <<120094, 120121>>,
       <<120123, 120126>>, <<120128, 120132>>, <<120134, 120134>>,
       <<120138, 120144>>, <<120146, 120485>>, <<120488, 120512>>,
       <<120514, 120538>>, <<120540, 120570>>, <<120572, 120596>>,
       <<120598, 120628>>, <<120630, 120654>>, <<120656, 120686>>,
       <<120688, 120712>>, <<120714, 120744>>, <<120746, 120770>>,
       <<120772, 120779>>, <<122624, 122633>>, <<122635, 122654>>,
       <<125184, 125251>>, <<127280, 127305>>, <<127312, 127337>>,
       <<127344, 127369>> >>)

\* the case-ignorable characters (marks, modifiers, some punctuation)
CaseIgnorable ==
    CharsIn(
    << <<39, 39>>, <<46, 46>>, <<58, 58>>, <<94, 94>>, <<96, 96>>, <<168, 168>>,
       <<173, 173>>, <<175, 175>>, <<180, 180>>, <<183, 184>>, <<688, 879>>,
       <<884, 885>>, <<890, 890>>, <<900, 901>>, <<903, 903>>, <<1155, 1161>>,
       <<1369, 1369>>, <<1375, 1375>>, <<1425, 1469>>, <<1471, 1471>>,
       <<1473, 1474>>, <<1476, 1477>>, <<1479, 1479>>, <<1524, 1524>>,
       <<1536, 1541>>, <<1552, 1562>>, <<1564, 1564>>, <<1600, 1600>>,
       <<1611, 1631>>, <<1648, 1648>>, <<1750, 1757>>, <<1759, 1768>>,
       <<1770, 1773>>, <<1807, 1807>>, <<1809, 1809>>, <<1840, 1866>>,
       <<1958, 1968>>, <<2027, 2037>>, <<2042, 2042>>, <<2045, 2045>>,
       <<2070, 2093>>, <<2137, 2139>>, <<2184, 2184>>, <<2192, 2193>>,
       <<2200, 2207>>, <<2249, 2306>>, <<2362, 2362>>, <<2364, 2364>>,
       <<2369, 2376>>, <<2381, 2381>>, <<2385, 2391>>, <<2402, 2403>>,
       <<2417, 2417>>, <<2433, 2433>>, <<2492, 2492>>, <<2497, 2500>>,
       <<2509, 2509>>, <<2530, 2531>>, <<2558, 2558>>, <<2561, 2562>>,
       <<2620, 2620>>, <<2625, 2626>>, <<2631, 2632>>, <<2635, 2637>>,
       <<2641, 2641>>, <<2672, 2673>>, <<2677, 2677>>, <<2689, 2690>>,
       <<2748, 2748>>, <<2753, 2757>>, <<2759, 2760>>, <<2765, 2765>>,
       <<2786, 2787>>, <<2810, 2815>>, <<2817, 2817>>, <<2876, 2876>>,
       <<2879, 2879>>, <<2881, 2884>>, <<2893, 2893>>, <<2901, 2902>>,
       <<2914, 2915>>, <<2946, 2946>>, <<3008, 3008>>, <<3021, 3021>>,
       <<3072, 3072>>, <<3076, 3076>>, <<3132, 3132>>, <<3134, 3136>>,
       <<3142, 3144>>, <<3146, 3149>>, <<3157, 3158>>, <<3170, 3171>>,
       <<3201, 3201>>, <<3260, 3260>>, <<3263, 3263>>, <<3270, 3270>>,
       <<3276, 3277>>, <<3298, 3299>>, <<3328, 3329>>, <<3387, 3388>>,
       <<3393, 3396>>, <<3405, 3405>>, <<3426, 3427>>, <<3457, 3457>>,
       <<3530, 3530>>, <<3538, 3540>>, <<3542, 3542>>, <<3633, 3633>>,
       <<3636, 3642>>, <<3654, 3662>>, <<3761, 3761>>, <<3764, 3772>>,
       <<3782, 3782>>, <<3784, 3789>>, <<3864, 3865>>, <<3893, 3893>>,
       <<3895, 3895>>, <<3897, 3897>>, <<3953, 3966>>, <<3968, 3972>>,
       <<3974, 3975>>, <<3981, 3991>>, <<3993, 4028>>, <<4038, 4038>>,
       <<4141, 4144>>, <<4146, 4151>>, <<4153, 4154>>, <<4157, 4158>>,
       <<4184, 4185>>, <<4190, 4192>>, <<4209, 4212>>, <<4226, 4226>>,
       <<4229, 4230>>, <<4237, 4237>>, <<4253, 4253>>, <<4348, 4348>>,
       <<4957, 4959>>, <<5906, 5908>>, <<5938, 5939>>, <<5970, 5971>>,
       <<6002, 6003>>, <<6068, 6069>>, <<6071, 6077>>, <<6086, 6086>>,
       <<6089, 6099>>, <<6103, 6103>>, <<6109, 6109>>, <<6155, 6159>>,
       <<6211, 6211>>, <<6277, 6278>>, <<6313, 6313>>, <<6432, 6434>>,
       <<6439, 6440>>, <<6450, 6450>>, <<6457, 6459>>, <<6679, 6680>>,
       <<6683, 6683>>, <<6742, 6742>>, <<6744, 6750>>, <<6752, 6752>>,
       <<6754, 6754>>, <<6757, 6764>>, <<6771, 6780>>, <<6783, 6783>>,
       <<6823, 6823>>, <<6832, 6862>>, <<6912, 6915>>, <<6964, 6964>>,
       <<6966, 6970>>, <<6972, 6972>>, <<6978, 6978>>, <<7019, 7027>>,
       <<7040, 7041>>, <<7074, 7077>>, <<7080, 7081>>, <<7083, 7085>>,
       <<7142, 7142>>, <<7144, 7145>>, <<7149, 7149>>, <<7151, 7153>>,
       <<7212, 7219>>, <<7222, 7223>>, <<7288, 7293>>, <<7376, 7378>>,
       <<7380, 7392>>, <<7394, 7400>>, <<7405, 7405>>, <<7412, 7412>>,
       <<7416, 7417>>, <<7468, 7530>>, <<7544, 7544>>, <<7579, 7679>>,
       <<8125, 8125>>, <<8127, 8129>>, <<8141, 8143>>, <<8157, 8159>>,
       <<8173, 8175>>, <<8189, 8190>>, <<8203, 8207>>, <<8216, 8217>>,
       <<8228, 8228>>, <<8231, 8231>>, <<8234, 8238>>, <<8288, 8292>>,
       <<8294, 8303>>, <<8305, 8305>>, <<8319, 8319>>, <<8336, 8348>>,
       <<8400, 8432>>, <<11388, 11389>>, <<11503, 11505>>, <<11631, 11631>>,
       <<11647, 11647>>, <<11744, 11775>>, <<11823, 11823>>, <<12293, 12293>>,
       <<12330, 12333>>, <<12337, 12341>>, <<12347, 12347>>, <<12441, 12446>>,
       <<12540, 12542>>, <<40981, 40981>>, <<42232, 42237>>, <<42508, 42508>>,
       <<42607, 42610>>, <<42612, 42621>>, <<42623, 42623>>, <<42652, 42655>>,
       <<42736, 42737>>, <<42752, 42785>>, <<42864, 42864>>, <<42888, 42890>>,
       <<42994, 42996>>, <<43000, 43001>>, <<43010, 43010>>, <<43014, 43014>>,
       <<43019, 43019>>, <<43045, 43046>>, <<43052, 43052>>, <<43204, 43205>>,
       <<43232, 43249>>, <<43263, 43263>>, <<43302, 43309>>, <<43335, 43345>>,
       <<43392, 43394>>, <<43443, 43443>>, <<43446, 43449>>, <<43452, 43453>>,
       <<43471, 43471>>, <<43493, 43494>>, <<43561, 43566>>, <<43569, 43570>>,
       <<43573, 43574>>, <<43587, 43587>>, <<43596, 43596>>, <<43632, 43632>>,
       <<43644, 43644>>, <<43696, 43696>>, <<43698, 43700>>, <<43703, 43704>>,
       <<43710, 43711>>, <<43713, 43713>>, <<43741, 43741>>, <<43756, 43757>>,
       <<43763, 43764>>, <<43766, 43766>>, <<43867, 43871>>, <<43881, 43883>>,
       <<44005, 44005>>, <<44008, 44008>>, <<44013, 44013>>, <<64286, 64286>>,
       <<64434, 64450>>, <<65024, 65039>>, <<65043, 65043>>, <<65056, 65071>>,
       <<65106, 65106>>, <<65109, 65109>>, <<65279, 65279>>, <<65287, 65287>>,
       <<65294, 65294>>, <<65306, 65306>>, <<65342, 65342>>, <<65344, 65344>>,
       <<65392, 65392>>, <<65438, 65439>>, <<65507, 65507>>, <<65529, 65531>>,
       <<66045, 66045>>, <<66272, 66272>>, <<66422, 66426>>, <<67456, 67461>>,
       <<67463, 67504>>, <<67506, 67514>>, <<68097, 68099>>, <<68101, 68102>>,
       <<68108, 68111>>, <<68152, 68154>>, <<68159, 68159>>, <<68325, 68326>>,
       <<68900, 68903>>, <<69291, 69292>>, <<69446, 69456>>, <<69506, 69509>>,
       <<69633, 69633>>, <<69688, 69702>>, <<69744, 69744>>, <<69747, 69748>>,
       <<69759, 69761>>, <<69811, 69814>>, <<69817, 69818>>, <<69821, 69821>>,
       <<69826, 69826>>, <<69837, 69837>>, <<69888, 69890>>, <<69927, 69931>>,
       <<69933, 69940>>, <<70003, 70003>>, <<70016, 70017>>, <<70070, 70078>>,
       <<70089, 70092>>, <<70095, 70095>>, <<70191, 70193>>, <<70196, 70196>>,
       <<70198, 70199>>, <<70206, 70206>>, <<70367, 70367>>, <<70371, 70378>>,
       <<70400, 70401>>, <<70459, 70460>>, <<70464, 70464>>, <<70502, 70508>>,
       <<70512, 70516>>, <<70712, 70719>>, <<70722, 70724>>, <<70726, 70726>>,
       <<70750, 70750>>, <<70835, 70840>>, <<70842, 70842>>, <<70847, 70848>>,
       <<70850, 70851>>, <<71090, 71093>>, <<71100, 71101>>, <<71103, 71104>>,
       <<71132, 71133>>, <<71219, 71226>>, <<71229, 71229>>, <<71231, 71232>>,
       <<71339, 71339>>, <<71341, 71341>>, <<71344, 71349>>, <<71351, 71351>>,
       <<71453, 71455>>, <<71458, 71461>>, <<71463, 71467>>, <<71727, 71735>>,
       <<71737, 71738>>, <<71995, 71996>>, <<71998, 71998>>, <<72003, 72003>>,
       <<72148, 72151>>, <<72154, 72155>>, <<72160, 72160>>, <<72193, 72202>>,
       <<72243, 72248>>, <<72251, 72254>>, <<72263, 72263>>, <<72273, 72278>>,
       <<72281, 72283>>, <<72330, 72342>>, <<72344, 72345>>, <<72752, 72758>>,
       <<72760, 72765>>, <<72767, 72767>>, <<72850, 72871>>, <<72874, 72880>>,
       <<72882, 72883>>, <<72885, 72886>>, <<73009, 73014>>, <<73018, 73018>>,
       <<73020, 73021>>, <<73023, 73029>>, <<73031, 73031>>, <<73104, 73105>>,
       <<73109, 73109>>, <<73111, 73111>>, <<73459, 73460>>, <<78896, 78904>>,
       <<92912, 92916>>, <<92976, 92982>>, <<92992, 92995>>, <<94031, 94031>>,
       <<94095, 94111>>, <<94176, 94177>>, <<94179, 94180>>, <<110576, 110579>>,
       <<110581, 110587>>, <<110589, 110590>>, <<113821, 113822>>,
       <<113824, 113827>>, <<118528, 118573>>, <<118576, 118598>>,
       <<119143, 119145>>, <<119155, 119170>>, <<119173, 119179>>,
       <<119210, 119213>>, <<119362, 119364>>, <<121344, 121398>>,
       <<121403, 121452>>, <<121461, 121461>>, <<121476, 121476>>,
       <<121499, 121503>>, <<121505, 121519>>, <<122880, 122886>>,
       <<122888, 122904>>, <<122907, 122913>>, <<122915, 122916>>,
       <<122918, 122922>>, <<123184, 123197>>, <<123566, 123566>>,
       <<123628, 123631>>, <<125136, 125142>>, <<125252, 125259>>,
       <<127995, 127999>>, <<917505, 917505>>, <<917536, 917631>>,
       <<917760, 917999>> >>)

\* the lower-case character of each character of ToLowerFrom
ToLower == [c \in ToLowerFrom |-> (CHOOSE p \in ToLowerPairs : p[1] = c)[2]]

\* str.lower() of the one-character text c, c other than the capital I with a dot above
LowerChar(c) == IF c \in ToLowerFrom THEN ToLower[c] ELSE c

\* whether the capital sigma at s[i] ends a word: a cased character comes
\* before it and none after it, case-ignorable characters passed over
FinalSigma(s, i) ==
    LET before == {j \in 1..(i - 1) : s[j] \notin CaseIgnorable}
        after == {j \in (i + 1)..Len(s) : s[j] \notin CaseIgnorable}
    IN  /\ before # {}
        /\ s[CHOOSE j \in before : \A k \in before : j >= k] \in Cased
        /\ \/ after = {}
           \/ s[CHOOSE j \in after : \A k \in after : j <= k] \notin Cased

\* str.lower() of s from its i-th character on: the capital I with a dot
\* above (code point 304) becomes "i" and the combining dot above (775),
\* the capital sigma (931) the final small sigma (962) at the end of a
\* word and the small sigma (963) elsewhere
RECURSIVE LowerFrom(_, _)
LowerFrom(s, i) ==
    IF i > Len(s) THEN <<>>
    ELSE (IF s[i] = "chr(304)" THEN <<"i", "chr(775)">>
          ELSE IF s[i] = "chr(931)"
          THEN <<IF FinalSigma(s, i) THEN "chr(962)" ELSE "chr(963)">>
          ELSE <<LowerChar(s[i])>>)
         \o LowerFrom(s, i + 1)

\* str.lower()
Lower(s) == LowerFrom(s, 1)

\* str.strip()
Strip(s) ==
    LET keep == {i \in DOMAIN s : s[i] \notin Whitespace}
    IN  IF keep = {} THEN <<>>
        ELSE SubSeq(s, CHOOSE i \in keep : \A j \in keep : i <= j,
                       CHOOSE i \in keep : \A j \in keep : i >= j)

Min(S) == CHOOSE x \in S : \A y \in S : x <= y
Max(S) == CHOOSE x \in S : \A y \in S : x >= y

\* sub in s
Contains(s, sub) ==
    \E i \in 1..(Len(s) - Len(sub) + 1) : SubSeq(s, i, i + Len(sub) - 1) = sub

\* s.split(sep): the list of the pieces of s between occurrences of the
\* one-character separator sep
RECURSIVE Split(_, _)
Split(s, sep) ==
    IF sep \notin Range(s) THEN <<s>>
    ELSE LET p == CHOOSE i \in DOMAIN s :
                      s[i] = sep /\ \A j \in 1..(i - 1) : s[j] # sep
         IN  <<SubSeq(s, 1, p - 1)>> \o Split(SubSeq(s, p + 1, Len(s)), sep)

(***************************************************************************)
(* extract_domain_from_email: None (modelled <<>>, falsy like "") when the *)
(* address is empty or has no "@", else the text between the first and    *)
(* the second "@", lower-cased and stripped.                               *)
(***************************************************************************)
extract_domain_from_email(email) ==
    IF email = <<>> \/ "@" \notin Range(email) THEN <<>>
    ELSE Strip(Lower(Split(email, "@")[2]))

(***************************************************************************)
(* domain_pattern of validate_domain: dot-separated labels, each           *)
(* [a-zA-Z0-9]([a-zA-Z0-9\-]{0,61}[a-zA-Z0-9])? .  ("$" also matches       *)
(* before one final newline.)                                              *)
(***************************************************************************)
LabelInnerMax == 61

LabelMatches(l) ==
    /\ Len(l) >= 1
    /\ l[1] \in Alnum
    /\ Len(l) >= 2 =>
          /\ l[Len(l)] \in Alnum
          /\ Len(l) - 2 <= LabelInnerMax
          /\ \A i \in 2..(Len(l) - 1) : l[i] \in Alnum \cup {"-"}

DropFinalNewline(s) ==
    IF s # <<>> /\ s[Len(s)] = "\n" THEN SubSeq(s, 1, Len(s) - 1) ELSE s

domain_pattern(domain) ==
    LET labels == Split(DropFinalNewline(domain), ".")
    IN  \A i \in DOMAIN labels : LabelMatches(labels[i])

(***************************************************************************)
(* validate_domain(domain) with the two lookups as inputs:                 *)
(*   dns: "ok" (gethostbyname returns), "gaierror", "error" (any other     *)
(*        exception), "error_cbf" (any other exception whose text, which   *)
(*        line 95 puts into the message, holds "couldn't be found");       *)
(*   mx:  "no_module" (ImportError), "raises", "empty", "records".         *)
(* Result: [ok, err], err naming the message returned.                     *)
(***************************************************************************)
DnsResults == {"ok", "gaierror", "error", "error_cbf"}
MxResults == {"no_module", "raises", "empty", "records"}

\* The lookups validate_domain makes for a domain, with their results:
\* none when the format check fails, no MX lookup when the resolution fails.
Lookups(domain) ==
    IF domain = <<>> \/ ~domain_pattern(domain)
    THEN {[dns |-> "not_called", mx |-> "not_called"]}
    ELSE [dns : DnsResults \ {"ok"}, mx : {"not_called"}]
         \cup [dns : {"ok"}, mx : MxResults]

\* variant: a raising MX lookup rejects the domain
validate_domain_mx_required(domain, dns, mx) ==
    IF domain = <<>> THEN [ok |-> FALSE, err |-> "no_domain"]
    ELSE IF ~domain_pattern(domain) THEN [ok |-> FALSE, err |-> "invalid_format"]
    ELSE IF dns = "gaierror" THEN [ok |-> FALSE, err |-> "dns_failed"]
    ELSE IF dns \in {"error", "error_cbf"} THEN [ok |-> FALSE, err |-> "validation_error"]
    ELSE IF mx \in {"empty", "raises"} THEN [ok |-> FALSE, err |-> "no_mx"]
    ELSE [ok |-> TRUE, err |-> ""]

validate_domain(domain, dns, mx) ==
    IF domain = <<>> THEN [ok |-> FALSE, err |-> "no_domain"]
    ELSE IF ~domain_pattern(domain) THEN [ok |-> FALSE, err |-> "invalid_format"]
    ELSE IF dns = "gaierror" THEN [ok |-> FALSE, err |-> "dns_failed"]
    ELSE IF dns \in {"error", "error_cbf"} THEN [ok |-> FALSE, err |-> "validation_error"]
    ELSE IF mx = "empty" THEN [ok |-> FALSE, err |-> "no_mx"]
    ELSE [ok |-> TRUE, err |-> ""]

(***************************************************************************)
(* email_pattern of send_email:                                            *)
(*   ^[a-zA-Z0-9._%+-]+@[a-zA-Z0-9.-]+\.[a-zA-Z]{2,}$                      *)
(* As neither character class holds "@", a match has exactly one "@"; as   *)
(* the last class holds no ".", the "\." is the last dot of the address.   *)
(***************************************************************************)
TldMin == 2

email_pattern(to_email) ==
    LET e == DropFinalNewline(to_email)
        parts == Split(e, "@")
    IN  /\ Len(parts) = 2
        /\ parts[1] # <<>>
        /\ Range(parts[1]) \subseteq Alnum \cup {".", "_", "%", "+", "-"}
        /\ LET host == Split(parts[2], ".")
               n == Len(host)
           IN  /\ n >= 2
               /\ Len(host[n]) >= TldMin
               /\ Range(host[n]) \subseteq Letters
               /\ Len(parts[2]) - Len(host[n]) - 1 >= 1
               /\ \A i \in 1..(n - 1) : Range(host[i]) \subseteq Alnum \cup {"-"}

(***************************************************************************)
(* Text constants.                                                         *)
(***************************************************************************)
STATUS_SENT == <<"s","e","n","t">>
STATUS_OPENED == <<"o","p","e","n","e","d">>
STATUS_FAILED == <<"f","a","i","l","e","d">>
STATUS_SKIPPED == <<"s","k","i","p","p","e","d">>
NOT_AVAILABLE == <<"N","/","A">>
WORD_DOMAIN == <<"d","o","m","a","i","n">>
WORD_CBF == <<"c","o","u","l","d","n","'","t"," ","b","e"," ","f","o","u","n","d">>
WORD_NOT_FOUND == <<"n","o","t"," ","f","o","u","n","d">>

(***************************************************************************)
(* Outreach items of data/outreach_messages_validated.json, as read by the *)
(* .get() calls at lines 280-284: site, to, contact_form_url, subject,     *)
(* message.  A subject or message that the JSON gives as null is JsonNull  *)
(* (a one-element sequence that no text equals, text being made of         *)
(* one-character strings).                                                 *)
(***************************************************************************)
JsonNull == <<"null">>
SubjectHello == <<"H","e","l","l","o">>
MessageHi == <<"H","i">>

\* an item with a subject and a message text
Item(site, to, form) ==
    [site |-> site, to |-> to, contact_form_url |-> form,
     subject |-> SubjectHello, message |-> MessageHi]

\* the same item with "message": null
WithoutMessage(item) == [item EXCEPT !.message = JsonNull]

SiteAc == <<"A","c">>
SiteAcUpper == <<"A","C">>
SiteAcPadded == <<" ","A","c">>
SiteBd == <<"B","d">>
MailAB == <<"a","@","b",".","c","o">>
MailABUpper == <<"A","@","B",".","C","O">>
MailBadLabel == <<"x","@","-","b",".","c","o">>
MailNoAt == <<"x","b",".","c","o">>
MailOneLabel == <<"a","@","b">>
MailNoDomain == <<"a","@">>
FormUrl == <<"h","/","F">>

\* texts with an unpaired surrogate (JSON "\\ud800x", "\\ud800")
SiteSurrogate == <<"chr(55296)","x">>
LoneSurrogate == <<"chr(55296)">>

\* subjects with a line break followed by a header-like line (JSON
\* "a\\nb: c", "x\\ndomain: not found")
SubjectEmbedded == <<"a","\n","b",":"," ","c">>
SubjectDomainEmbedded ==
    <<"x","\n","d","o","m","a","i","n",":"," ","n","o","t"," ","f","o","u","n","d">>

Items ==
    { Item(SiteAc, MailAB, <<>>),
      Item(SiteAcPadded, MailAB, FormUrl),
      Item(SiteBd, <<>>, FormUrl),
      Item(SiteBd, <<>>, <<>>),
      Item(SiteBd, MailBadLabel, FormUrl) }

RECURSIVE SeqsUpTo(_, _)
SeqsUpTo(S, n) ==
    IF n = 0 THEN {<<>>}
    ELSE LET shorter == SeqsUpTo(S, n - 1)
         IN  shorter \cup {Append(b, x) : b \in {c \in shorter : Len(c) = n - 1}, x \in S}

\* What process_messages finds at MESSAGES_FILE: no file, or a JSON list.
MessageFiles ==
    {[exists |-> FALSE, content |-> <<>>]}
    \cup {[exists |-> TRUE, content |-> b] : b \in SeqsUpTo(Items, MaxBatch)}

(***************************************************************************)
(* The ledger file data/outreach_log.csv, as csv.writer and csv.DictReader *)
(* treat it.  A line is the sequence of its cells.  The file is            *)
(*   - its first line (names), the column names for DictReader: <<>> when  *)
(*     there is no file or the file has 0 bytes;                           *)
(*   - the lines after the first, the data rows (the variable ledger);     *)
(*   - whether the last line ends with a line terminator (eol).            *)
(* A data row is a record of the cells in the site, contact and status     *)
(* positions (NoCell where the line is too short to have the cell) and of  *)
(* the cells from the fifth on (rest).  The text of the timestamp cell and *)
(* of the notes cell is not modelled: TimestampText and NotesText are      *)
(* one-element sequences that no modelled text equals.                     *)
(***************************************************************************)
NoCell == <<"None">>
TimestampText == <<"<timestamp>">>
NotesText == <<"<notes>">>
NAME_SITE == <<"s","i","t","e">>
NAME_CONTACT == <<"c","o","n","t","a","c","t">>
NAME_STATUS == <<"s","t","a","t","u","s">>

\* the header of line 140
HeaderCells ==
    << <<"t","i","m","e","s","t","a","m","p">>, NAME_SITE, NAME_CONTACT, NAME_STATUS,
       <<"n","o","t","e","s">> >>

\* a row as log_submission writes it: five cells
Row(site, contact, status) ==
    [site |-> site, contact |-> contact, status |-> status, rest |-> <<NotesText>>]

\* the cells of the line of a row
Cells(row) ==
    <<TimestampText>> \o
    (IF row.site = NoCell THEN <<>>
     ELSE <<row.site>> \o
          (IF row.contact = NoCell THEN <<>>
           ELSE <<row.contact>> \o
                (IF row.status = NoCell THEN <<>>
                 ELSE <<row.status>> \o row.rest)))

\* the row of a line of cells
RowOfCells(cells) ==
    [ site    |-> IF Len(cells) >= 2 THEN cells[2] ELSE NoCell,
      contact |-> IF Len(cells) >= 3 THEN cells[3] ELSE NoCell,
      status  |-> IF Len(cells) >= 4 THEN cells[4] ELSE NoCell,
      rest    |-> SubSeq(cells, 5, Len(cells)) ]

\* a row of fewer than four cells, entered out of band: "t", "t,site" or
\* "t,site,contact"
ShortRow(cells) == RowOfCells(<<TimestampText>> \o cells)

LogFile(exists, names, eol) == [exists |-> exists, names |-> names, eol |-> eol]
NoLogFile == LogFile(FALSE, <<>>, TRUE)
HeadedLogFile == LogFile(TRUE, HeaderCells, TRUE)
EmptyLogFile == LogFile(TRUE, <<>>, TRUE)

\* the ledger on disk: the file and its data rows
Ledger(file, rows) == [file |-> file, rows |-> rows]

\* Ledgers a run may find: none, or rows entered out of band (the engine
\* itself never writes status "opened").
InitialLedgers ==
    { Ledger(NoLogFile, <<>>),
      Ledger(HeadedLogFile,
             <<Row(SiteAcUpper, MailABUpper, <<"O","p","e","n","e","d">>),
               Row(SiteBd, MailBadLabel, <<"S","E","N","T"," ">>)>>) }

(***************************************************************************)
(* log_submission(site, contact, status, notes): write one line at the end *)
(* of the CSV file, after the header when the file does not exist yet      *)
(* (lines 135-141).  In a file of 0 bytes the line is the first line, which*)
(* DictReader takes for the column names; after a last line without line   *)
(* terminator the text is written onto that line, whose last cell is       *)
(* joined with the timestamp.  The row is one write to the text stream,    *)
(* which raises UnicodeEncodeError when a cell cannot be encoded: the row  *)
(* is not written, the header (a write of its own) is.  Result: the file,  *)
(* its data rows, and whether the call raised.                             *)
(***************************************************************************)
\* the call returned, leaving the file and its rows
Wrote(file, rows) == [file |-> file, rows |-> rows, raised |-> FALSE]

\* writer.writerow of line 141 raised, leaving the file and its rows
WriteRaised(file, rows) == [file |-> file, rows |-> rows, raised |-> TRUE]

\* text written at the end of a line of cells
GlueCells(line, cells) ==
    SubSeq(line, 1, Len(line) - 1) \o <<line[Len(line)] \o cells[1]>> \o Tail(cells)

\* variant: a row equal to one already in the file is not written again
log_submission_once(file, led, site, contact, status) ==
    IF \E i \in DOMAIN led : led[i] = Row(site, contact, status)
    THEN Wrote(file, led)
    ELSE Wrote(HeadedLogFile, Append(led, Row(site, contact, status)))

\* variant: the file is opened for writing instead of appending
log_submission_truncating(file, led, site, contact, status) ==
    Wrote(HeadedLogFile, <<Row(site, contact, status)>>)

\* variant: the row is held back for a write at the end of the run
log_submission_buffered(file, led, site, contact, status) ==
    Wrote(file, led)

log_submission(file, led, site, contact, status) ==
    LET row == Row(site, contact, status)
    IN  IF ~(Encodable(site) /\ Encodable(contact))
        THEN IF ~file.exists
             THEN WriteRaised(HeadedLogFile, <<>>)
             ELSE WriteRaised(file, led)
        ELSE IF ~file.exists
        THEN Wrote(HeadedLogFile, <<row>>)
        ELSE IF file.names = <<>>
        THEN Wrote(LogFile(TRUE, Cells(row), TRUE), led)
        ELSE IF ~file.eol
        THEN IF led = <<>>
             THEN Wrote(LogFile(TRUE, GlueCells(file.names, Cells(row)), TRUE), led)
             ELSE Wrote(LogFile(TRUE, file.names, TRUE),
                        [led EXCEPT ![Len(led)] =
                             RowOfCells(GlueCells(Cells(led[Len(led)]), Cells(row)))])
        ELSE Wrote(file, Append(led, row))

(***************************************************************************)
(* csv.DictReader: the value of a row under a column name.  The cells are  *)
(* paired with the names in order, a later pair replacing an earlier one   *)
(* of the same name; a name beyond the last cell of the row has the value  *)
(* None (restval), whatever an earlier pair gave it.  row.get(name, "") is *)
(* "" when no column has the name.                                         *)
(***************************************************************************)
RowGet(names, cells, name) ==
    LET beyond == {p \in DOMAIN names : p > Len(cells) /\ names[p] = name}
        paired == {p \in DOMAIN names : p <= Len(cells) /\ names[p] = name}
    IN  IF beyond # {} THEN NoCell
        ELSE IF paired # {} THEN cells[CHOOSE p \in paired : \A q \in paired : q <= p]
        ELSE <<>>

(***************************************************************************)
(* get_already_contacted: dict from (site.lower(), contact.lower()) to the *)
(* status, over the rows whose stripped, lower-cased status is sent or     *)
(* opened and whose stripped site and contact are non-empty; a later row   *)
(* overwrites an earlier one with the same key.  The first row with a None *)
(* value under site, contact or status raises (None has no strip) and the  *)
(* except clause of line 124 ends the reading: the dict holds what the     *)
(* rows before it gave.                                                    *)
(***************************************************************************)
EmptyDict == [k \in {} |-> <<>>]

\* lines 114-123 from row i on, already_contacted being dict
RECURSIVE ReadRows(_, _, _, _)
ReadRows(names, led, i, dict) ==
    IF i > Len(led) THEN dict
    ELSE LET cells == Cells(led[i])
             site_cell == RowGet(names, cells, NAME_SITE)
             contact_cell == RowGet(names, cells, NAME_CONTACT)
             status_cell == RowGet(names, cells, NAME_STATUS)
             site == Strip(site_cell)
             contact == Strip(contact_cell)
             status == Lower(Strip(status_cell))
             key == <<Lower(site), Lower(contact)>>
         IN  IF NoCell \in {site_cell, contact_cell, status_cell}
             THEN dict
             ELSE IF status \in {STATUS_SENT, STATUS_OPENED} /\ site # <<>> /\ contact # <<>>
             THEN ReadRows(names, led, i + 1,
                           [k \in DOMAIN dict \cup {key} |->
                                IF k = key THEN status ELSE dict[k]])
             ELSE ReadRows(names, led, i + 1, dict)

get_already_contacted(file, led) ==
    IF ~file.exists THEN EmptyDict
    ELSE ReadRows(file.names, led, 1, EmptyDict)

(***************************************************************************)
(* The relay (smtplib) as seen by send_email: the call at which an         *)
(* exception is raised ("none": all calls return), the class of the        *)
(* exception, and which of the texts the handlers look for occur in        *)
(* str(e).lower(): "couldn't be found" (cbf), "domain" (dom),              *)
(* "not found" (nf).  The starttls call is made when SMTP_USE_TLS is set.  *)
(* No call is given a timeout (lines 197-205), so a relay that stays       *)
(* silent keeps the call from returning: exception class "hang".           *)
(***************************************************************************)
RelayExceptions ==
    [ connect  |-> {"smtp", "other"},
      starttls |-> {"smtp", "other"},
      login    |-> {"auth", "smtp", "other"},
      send     |-> {"refused", "data", "smtp", "other"},
      quit     |-> {"smtp", "other"} ]

RelayOk == [fail |-> "none", exc |-> "none", cbf |-> FALSE, dom |-> FALSE, nf |-> FALSE]

RelayHangs ==
    [fail : DOMAIN RelayExceptions, exc : {"hang"},
     cbf : {FALSE}, dom : {FALSE}, nf : {FALSE}]

\* the texts of an exception: any of the three may occur in it
RelayTexts == [cbf : BOOLEAN, dom : BOOLEAN, nf : BOOLEAN]

RelayBehaviours ==
    {RelayOk} \cup RelayHangs \cup
    UNION { { [fail |-> st, exc |-> e, cbf |-> t.cbf, dom |-> t.dom, nf |-> t.nf] :
                e \in RelayExceptions[st], t \in RelayTexts } :
            st \in DOMAIN RelayExceptions }

\* What one send_email call did to the relay: whether it tried to connect,
\* the call that raised or did not return, whether send_message returned,
\* whether a connection was left without quit.
NoContact ==
    [attempted |-> FALSE, failed_at |-> "not_contacted", delivered |-> FALSE,
     leaked |-> FALSE]

RelayContact(r) ==
    [ attempted |-> TRUE,
      failed_at |-> r.fail,
      delivered |-> r.fail \in {"none", "quit"},
      leaked    |-> r.fail \in {"starttls", "login", "send"} \/ r.exc = "hang" ]

(***************************************************************************)
(* Error messages of send_email: the kind of message, and whether its      *)
(* lower-cased text holds "domain" / "couldn't be found" (the only tests   *)
(* process_messages applies to it).                                        *)
(***************************************************************************)
Msg(kind, has_domain, has_cbf) ==
    [kind |-> kind, has_domain |-> has_domain, has_cbf |-> has_cbf]

DomainNotFoundMsg == Msg("domain_not_found", TRUE, TRUE)

\* the except clauses of send_email, lines 209-237
RelayErrorMsg(r) ==
    CASE r.exc = "auth" ->
            Msg("auth_failed", r.dom, r.cbf)
      [] r.exc = "refused" ->
            IF r.cbf \/ (r.dom /\ r.nf) THEN DomainNotFoundMsg
            ELSE Msg("recipient_refused", r.dom, r.cbf)
      [] r.exc = "data" ->
            IF r.cbf \/ r.dom THEN DomainNotFoundMsg
            ELSE Msg("data_error", r.dom, r.cbf)
      [] r.exc = "smtp" ->
            IF r.cbf \/ (r.dom /\ r.nf) THEN DomainNotFoundMsg
            ELSE Msg("smtp_error", r.dom, r.cbf)
      [] OTHER ->
            IF r.cbf \/ (r.dom /\ r.nf) THEN DomainNotFoundMsg
            ELSE Msg("send_error", r.dom, r.cbf)

\* what send_email returns (returns: it did return)
SendResult(success, msg, contact) ==
    [success |-> success, error_msg |-> msg, contact |-> contact, returns |-> TRUE]

\* send_email held for ever in a call to the relay
NoReturn(r) ==
    [success |-> FALSE, error_msg |-> Msg("none", FALSE, FALSE),
     contact |-> RelayContact(r), returns |-> FALSE]

\* lines 187-193: MIMEText(message, "plain") raises for a message that is
\* not a str (AttributeError: no attribute 'encode') and for one that holds
\* a surrogate (UnicodeEncodeError), inside the try and before smtplib.SMTP
\* is called; the text of the exception holds none of the words the handler
\* at lines 231-237 looks for.  A subject of any kind is accepted there.
MessageBuilds(subject, message) == message # JsonNull /\ Encodable(message)

(***************************************************************************)
(* Line 204: send_message turns the message into bytes before it sends     *)
(* anything (smtplib: BytesGenerator.flatten with the message's compat32   *)
(* policy, line end "\r\n").  A subject that holds a surrogate is written  *)
(* as it is, as undecoded bytes; one that holds a character outside ASCII  *)
(* and no surrogate is written as RFC 2047 encoded words; one of ASCII     *)
(* characters only goes through email.header.Header.encode, modelled here: *)
(* the text is cut at its line boundaries, each line is cut into pieces at *)
(* its runs of blanks and of tabs, a line longer than MAXLINELEN is folded *)
(* before one of these runs, the lines are joined by "\r\n", and the       *)
(* result is refused with HeaderParseError when a line break in it is      *)
(* followed by one or more characters other than blank and tab and then a  *)
(* colon.                                                                  *)
(***************************************************************************)
Ascii == CharsIn(<< <<0, 127>> >>)

\* email.header.MAXLINELEN, and len("Subject") + 2, the room the header
\* name takes in the first line
MAXLINELEN == 78
SubjectHeaderLen == 9

\* the line boundaries of str.splitlines() among the ASCII characters:
\* \n, \r, \x0b, \x0c, \x1c, \x1d, \x1e (and \r\n, taken as one)
LineBoundaries == {"\n", "\r", "chr(11)", "\f", "chr(28)", "chr(29)", "chr(30)"}

\* email.header.FWS
FWS == {" ", "\t"}

\* str.splitlines()
RECURSIVE splitlines(_)
splitlines(s) ==
    LET ends == {i \in DOMAIN s : s[i] \in LineBoundaries}
        p == Min(ends)
        q == IF s[p] = "\r" /\ p < Len(s) /\ s[p + 1] = "\n" THEN p + 1 ELSE p
    IN  IF s = <<>> THEN <<>>
        ELSE IF ends = {} THEN <<s>>
        ELSE <<SubSeq(s, 1, p - 1)>> \o splitlines(SubSeq(s, q + 1, Len(s)))

\* the number of characters at the start of s that are in the set (inside)
\* or that are not in it
RunLength(s, set, inside) ==
    LET stops == {i \in DOMAIN s : (s[i] \in set) # inside}
    IN  IF stops = {} THEN Len(s) ELSE Min(stops) - 1

\* _ValueFormatter._ascii_split: the pairs (fws, part) of a line, fws a run
\* of blanks and tabs (empty before a part that starts the line), part the
\* text up to the next such run (empty after a run that ends the line)
RECURSIVE ascii_split(_)
ascii_split(line) ==
    LET f == RunLength(line, FWS, TRUE)
        rest == SubSeq(line, f + 1, Len(line))
        p == RunLength(rest, FWS, FALSE)
    IN  IF line = <<>> THEN <<>>
        ELSE <<[fws |-> SubSeq(line, 1, f), part |-> SubSeq(rest, 1, p)]>>
             \o ascii_split(SubSeq(rest, p + 1, Len(rest)))

\* _Accumulator.__str__
RECURSIVE PairsText(_)
PairsText(pairs) ==
    IF pairs = <<>> THEN <<>>
    ELSE pairs[1].fws \o pairs[1].part \o PairsText(Tail(pairs))

\* _ValueFormatter: the lines made so far, the pairs of the current line,
\* and the room taken in it by the header name (_initial_size)
NewFormatter == [lines |-> <<>>, line |-> <<>>, size |-> SubjectHeaderLen]

\* the pair add_transition pushes
Transition == [fws |-> <<" ">>, part |-> <<>>]

\* _ValueFormatter.newline
newline(f) ==
    LET kept == IF f.line # <<>> /\ f.line[Len(f.line)] = Transition
                THEN SubSeq(f.line, 1, Len(f.line) - 1) ELSE f.line
        text == PairsText(kept)
        is_onlyws == f.size = 0 /\ \A i \in DOMAIN text : text[i] \in Whitespace
    IN  IF f.size + Len(text) = 0 THEN [f EXCEPT !.line = <<>>]
        ELSE IF is_onlyws /\ f.lines # <<>>
        THEN [lines |-> [f.lines EXCEPT ![Len(f.lines)] = @ \o text],
              line |-> <<>>, size |-> 0]
        ELSE [lines |-> Append(f.lines, text), line |-> <<>>, size |-> 0]

\* _ValueFormatter._append_chunk with the splitchars ";, \t" of encode: a
\* line that has grown longer than MAXLINELEN is split before the last
\* pair that follows a ";", else a ",", else starts with a blank, else
\* with a tab; a line of one pair is not split, but leaves the header name
\* on a line by itself
append_chunk(f, pair) ==
    LET line == Append(f.line, pair)
        n == Len(line)
        splitchars == <<";", ",", " ", "\t">>
        At(ch) ==
            {i \in 2..n :
                \/ ch \in FWS /\ line[i].fws # <<>> /\ line[i].fws[1] = ch
                \/ /\ line[i - 1].part # <<>>
                   /\ line[i - 1].part[Len(line[i - 1].part)] = ch}
        found == {k \in DOMAIN splitchars : At(splitchars[k]) # {}}
        i == Max(At(splitchars[Min(found)]))
    IN  IF f.size + Len(PairsText(line)) <= MAXLINELEN THEN [f EXCEPT !.line = line]
        ELSE IF found # {}
        THEN [lines |-> Append(f.lines, PairsText(SubSeq(line, 1, i - 1))),
              line |-> SubSeq(line, i, n), size |-> 0]
        ELSE IF f.size > 0
        THEN [newline(f) EXCEPT
                 !.line = <<[pair EXCEPT !.fws = IF @ = <<>> THEN <<" ">> ELSE @]>>]
        ELSE [f EXCEPT !.line = line]

\* _ValueFormatter.feed of a line of ASCII text
RECURSIVE feed(_, _)
feed(f, pairs) ==
    IF pairs = <<>> THEN f ELSE feed(append_chunk(f, pairs[1]), Tail(pairs))

\* the loop of Header.encode over the lines after the first
RECURSIVE feed_lines(_, _)
feed_lines(f, lines) ==
    IF lines = <<>> THEN f
    ELSE feed_lines(feed(newline(f), ascii_split(lines[1])), Tail(lines))

\* linesep.join(lines), linesep "\r\n"
RECURSIVE JoinLines(_)
JoinLines(lines) ==
    IF lines = <<>> THEN <<>>
    ELSE IF Len(lines) = 1 THEN lines[1]
    ELSE lines[1] \o <<"\r", "\n">> \o JoinLines(Tail(lines))

\* Header.encode of an ASCII text, before its test for an embedded header
encode(s) ==
    LET lines == splitlines(s)
        first == IF lines = <<>> THEN NewFormatter
                 ELSE feed(NewFormatter, ascii_split(lines[1]))
        fed == IF Len(lines) > 1 THEN newline(feed_lines(first, Tail(lines)))
               ELSE first
    IN  JoinLines(newline([fed EXCEPT !.line = Append(@, Transition)]).lines)

\* email.header._embedded_header, re.compile(r'\n[^ \t]+:'), searched
embedded_header(value) ==
    \E i \in DOMAIN value :
        /\ value[i] = "\n"
        /\ \E j \in (i + 2)..Len(value) :
              /\ value[j] = ":"
              /\ \A k \in (i + 1)..(j - 1) : value[k] \notin FWS

\* repr() of an ASCII text: in double quotes when it holds an apostrophe
\* and no double quote, else in single quotes with its apostrophes escaped
\* the ASCII characters that are not printable: repr writes them as \xhh
\* where it has no shorter escape
ControlChars == CharsIn(<< <<0, 31>>, <<127, 127>> >>)

HexDigits == <<"0","1","2","3","4","5","6","7","8","9","a","b","c","d","e","f">>

RECURSIVE ReprFrom(_, _, _)
ReprFrom(s, i, quote) ==
    IF i > Len(s) THEN <<>>
    ELSE LET c == s[i]
             n == CHOOSE k \in 0..127 : Chr(k) = c
         IN  (IF c = "\\" \/ c = quote THEN <<"\\", c>>
              ELSE IF c = "\t" THEN <<"\\", "t">>
              ELSE IF c = "\n" THEN <<"\\", "n">>
              ELSE IF c = "\r" THEN <<"\\", "r">>
              ELSE IF c \in ControlChars
              THEN <<"\\", "x", HexDigits[(n \div 16) + 1], HexDigits[(n % 16) + 1]>>
              ELSE <<c>>)
             \o ReprFrom(s, i + 1, quote)

repr(s) ==
    LET quote == IF "'" \in Range(s) /\ "\"" \notin Range(s) THEN "\"" ELSE "'"
    IN  <<quote>> \o ReprFrom(s, 1, quote) \o <<quote>>

\* str(e) of the HeaderParseError
EMBEDDED_HEADER_TEXT ==
    <<"h","e","a","d","e","r"," ","v","a","l","u","e"," ","a","p","p","e","a","r","s",
      " ","t","o"," ","c","o","n","t","a","i","n"," ","a","n"," ","e","m","b","e","d",
      "d","e","d"," ","h","e","a","d","e","r",":"," ">>

HeaderParseErrorText(value) == EMBEDDED_HEADER_TEXT \o repr(value)

\* whether send_message writes the subject: a subject with a surrogate
\* raises UnicodeEncodeError unless all its characters are ASCII or stand
\* for an undecoded byte, an ASCII subject raises HeaderParseError when its
\* folded value holds an embedded header
SubjectFlattens(subject) ==
    IF Range(subject) \subseteq Ascii THEN ~embedded_header(encode(subject))
    ELSE Encodable(subject) \/ Range(subject) \subseteq HeaderBytes

\* The relay as send_email meets it: when the subject cannot be written,
\* the call of send_message raises (an exception of no SMTP class) after
\* connect, starttls and login and before anything is sent, whatever the
\* relay would have done from there on.  The text of a UnicodeEncodeError
\* holds none of the texts the handler looks for; the text of a
\* HeaderParseError holds the repr of the folded subject.
AtRelay(subject, r) ==
    IF r.fail \notin {"none", "send", "quit"} \/ SubjectFlattens(subject) THEN r
    ELSE LET error_str == IF Range(subject) \subseteq Ascii
                          THEN Lower(HeaderParseErrorText(encode(subject)))
                          ELSE <<>>
         IN  [fail |-> "send", exc |-> "other",
              cbf |-> Contains(error_str, WORD_CBF),
              dom |-> Contains(error_str, WORD_DOMAIN),
              nf |-> Contains(error_str, WORD_NOT_FOUND)]

(***************************************************************************)
(* send_email(to_email, subject, message, ..., validate_domain_first),     *)
(* with the credentials flag (SMTP_USER and SMTP_PASSWORD both set), the   *)
(* lookups of validate_domain and the relay's behaviour as inputs.         *)
(***************************************************************************)
send_email(to_email, subject, message, validate_domain_first, configured, dns, mx, r) ==
    LET domain == extract_domain_from_email(to_email)
        v == validate_domain(domain, dns, mx)
        met == AtRelay(subject, r)
    IN  IF ~configured
        THEN SendResult(FALSE, Msg("no_credentials", FALSE, FALSE), NoContact)
        ELSE IF to_email = <<>>
        THEN SendResult(FALSE, Msg("no_recipient", FALSE, FALSE), NoContact)
        ELSE IF ~email_pattern(to_email)
        THEN SendResult(FALSE,
                        Msg("invalid_address", Contains(Lower(to_email), WORD_DOMAIN),
                            Contains(Lower(to_email), WORD_CBF)),
                        NoContact)
        ELSE IF validate_domain_first /\ domain # <<>> /\ ~v.ok
        THEN SendResult(FALSE,
                        Msg("domain_validation_failed", TRUE,
                            v.err = "validation_error" /\ dns = "error_cbf"),
                        NoContact)
        ELSE IF ~MessageBuilds(subject, message)
        THEN SendResult(FALSE, Msg("send_error", FALSE, FALSE), NoContact)
        ELSE IF met.exc = "hang"
        THEN NoReturn(met)
        ELSE IF met.fail = "none"
        THEN SendResult(TRUE, Msg("sent", FALSE, FALSE), RelayContact(met))
        ELSE SendResult(FALSE, RelayErrorMsg(met), RelayContact(met))

\* line 347
is_domain_error(error_msg) == error_msg.has_domain \/ error_msg.has_cbf

(***************************************************************************)
(* find_prospects_haro.py: the incremental sync of the mailbox into        *)
(* data/haro_emails.md.                                                    *)
(*                                                                         *)
(* The clock and the server's internal dates are kept to the day (an       *)
(* integer).  A datetime is a day, the second of that day, and, when it is *)
(* aware, its zone in seconds east of UTC.  A text is what a Date header   *)
(* or a regex capture holds: an RFC 2822 date, nothing, or some other      *)
(* text.  The file is a sequence of lines (its text split at               *)
(* "\n", so a text ending in "\n" has a blank last line); a line is a      *)
(* record with its fixed part t and the values printed on it.  The heading *)
(* line of a record also carries the email_id of the message it was        *)
(* rendered from (field id): a history field, not part of the text, which  *)
(* no operator of the program reads.  Every line has its length in         *)
(* characters, so that a position in the text (insert_position) is a       *)
(* number of characters; a line that an insertion has cut or joined is a   *)
(* sequence of parts of such lines (RawLine).                              *)
(***************************************************************************)
DaysBack == 30

SecondsPerDay == 86400

\* Optional[datetime]: None, or the datetime of the given day and second,
\* aware with the given zone or naive (zone 0)
None == [has |-> FALSE, day |-> 0, time |-> 0, aware |-> FALSE, zone |-> 0]
DateTime(day, time, aware, zone) ==
    [has |-> TRUE, day |-> day, time |-> time, aware |-> aware, zone |-> zone]
\* midnight UTC of day d
Some(d) == DateTime(d, 0, TRUE, 0)

\* a date text as "Mon, 10 Nov 2025 17:11:44 +0000": its day, its second of
\* the day, and its zone; with the zone "-0000" the text gives a naive
\* datetime.  The text is 31 characters long (TextLen).
RfcDateTime(day, time, aware, zone) ==
    [kind |-> "rfc2822", day |-> day, time |-> time, aware |-> aware, zone |-> zone]
RfcDate(d) == RfcDateTime(d, 0, TRUE, 0)
NoText == [kind |-> "empty", day |-> 0, time |-> 0, aware |-> FALSE, zone |-> 0]
OtherText == [kind |-> "other", day |-> 0, time |-> 0, aware |-> FALSE, zone |-> 0]

\* email.utils.parsedate_to_datetime (line 489): None stands for the
\* ValueError or TypeError raised on a text that is not a date
parsedate_to_datetime(text) ==
    IF text.kind = "rfc2822" THEN DateTime(text.day, text.time, text.aware, text.zone)
    ELSE None

\* datetime comparison: two aware datetimes compare by their instant, two
\* naive ones by their clock reading; comparing a naive with an aware one
\* raises TypeError
Comparable(a, b) == a.aware = b.aware
Instant(a) == a.day * SecondsPerDay + a.time - a.zone

Line(t) == [t |-> t, n |-> 0, m |-> 0, text |-> NoText, s |-> <<>>, id |-> 0]
TitleLine == Line("# HARO Emails")
BlankLine == Line("")
TotalLine(n) == [Line("**Total Emails:**") EXCEPT !.n = n]
GeneratedLine(day) == [Line("**Generated:**") EXCEPT !.n = day]
SepLine == Line("---")
HeadingLine(i, n, id) == [Line("## Email") EXCEPT !.n = i, !.m = n, !.id = id]
SubjectLine(s) == [Line("**Subject:**") EXCEPT !.s = s]
DateLine(text) == [Line("**Date:**") EXCEPT !.text = text]
FromLine(s) == [Line("**From:**") EXCEPT !.s = s]
BodyMarkerLine == Line("**Email Body:**")
FenceLine == Line("fence")
TextLine == Line("text")
NoMailLine == Line("No HARO emails found.")
NoNewMailLine == Line("No new HARO emails found.")
\* the text "": one blank line
EmptyContent == <<BlankLine>>

\* a line of one to three dashes: the separator or a piece of it
Dashes(n) == IF n = 0 THEN BlankLine
             ELSE IF n = 1 THEN Line("-")
             ELSE IF n = 2 THEN Line("--")
             ELSE SepLine
DashCount(line) ==
    IF line = BlankLine THEN 0
    ELSE IF line = Line("-") THEN 1
    ELSE IF line = Line("--") THEN 2
    ELSE IF line = SepLine THEN 3
    ELSE -1

\* the number of digits of str(n), n >= 0
RECURSIVE DigitsOf(_)
DigitsOf(n) == IF n < 10 THEN 1 ELSE 1 + DigitsOf(n \div 10)

RECURSIVE Pow10(_)
Pow10(k) == IF k <= 0 THEN 1 ELSE 10 * Pow10(k - 1)

\* len of a date text: "Mon, 10 Nov 2025 17:11:44 +0000", "N/A", ""
TextLen(text) ==
    IF text.kind = "rfc2822" THEN 31 ELSE IF text.kind = "other" THEN 3 ELSE 0

\* len of a line written as a whole
PlainLength(line) ==
    CASE line.t = "" -> 0
      [] line.t = "-" -> 1
      [] line.t = "--" -> 2
      [] line.t = "---" -> 3
      [] line.t = "# HARO Emails" -> 13
      [] line.t = "**Total Emails:**" -> 18 + DigitsOf(line.n)
      [] line.t = "**Generated:**" -> 34
      [] line.t = "## Email" -> 13 + DigitsOf(line.n) + DigitsOf(line.m)
      [] line.t = "**Subject:**" -> 13 + Len(line.s)
      [] line.t = "**Date:**" -> 10 + TextLen(line.text)
      [] line.t = "**From:**" -> 10 + Len(line.s)
      [] line.t = "**Email Body:**" -> 15
      [] line.t = "fence" -> 3
      [] line.t = "text" -> 4
      [] line.t = "No HARO emails found." -> 21
      [] line.t = "No new HARO emails found." -> 25

(***************************************************************************)
(* A line that is not one of the lines above is a sequence of parts, each  *)
(* the text of such a line without its first a and its last b characters:  *)
(* what an insertion in the middle of a line, or at the end of a line      *)
(* that is not terminated, leaves.                                         *)
(***************************************************************************)
Part(line, a, b) == [of |-> line, a |-> a, b |-> b]
Whole(line) == Part(line, 0, 0)
IsWhole(p) == p.a = 0 /\ p.b = 0
RawLine(parts) == [Line("raw") EXCEPT !.s = parts]

PartLength(p) == PlainLength(p.of) - p.a - p.b

RECURSIVE PartsLength(_)
PartsLength(parts) ==
    IF parts = <<>> THEN 0 ELSE PartLength(Head(parts)) + PartsLength(Tail(parts))

Parts(line) ==
    IF line = BlankLine THEN <<>>
    ELSE IF line.t = "raw" THEN line.s
    ELSE <<Whole(line)>>

Length(line) == PartsLength(Parts(line))

\* a part that holds nothing but digits: the end of the number of a Total
\* line; the number its digits make
IsDigits(p) == p.of.t = "**Total Emails:**" /\ p.a >= 18 /\ PartLength(p) > 0
DigitsValue(p) == (p.of.n \div Pow10(p.b)) % Pow10(PartLength(p))

\* a part as the line it reads as, when it reads as one: dashes, or a
\* Total line that has kept some of its digits
Normal(p) ==
    IF PartLength(p) <= 0 THEN <<>>
    ELSE IF DashCount(p.of) > 0 THEN <<Whole(Dashes(PartLength(p)))>>
    ELSE IF p.of.t = "**Total Emails:**" /\ p.a = 0 /\ p.b < DigitsOf(p.of.n)
    THEN <<Whole(TotalLine(p.of.n \div Pow10(p.b)))>>
    ELSE <<p>>

\* two parts written one after the other: one part when they read as one
Glue(x, y) ==
    IF /\ IsWhole(x) /\ IsWhole(y)
       /\ DashCount(x.of) > 0 /\ DashCount(y.of) > 0
       /\ DashCount(x.of) + DashCount(y.of) <= 3
    THEN <<Whole(Dashes(DashCount(x.of) + DashCount(y.of)))>>
    ELSE IF IsWhole(x) /\ x.of.t = "**Total Emails:**" /\ IsDigits(y)
    THEN <<Whole(TotalLine(x.of.n * Pow10(PartLength(y)) + DigitsValue(y)))>>
    ELSE <<x, y>>

RECURSIVE Join(_)
Join(parts) ==
    IF Len(parts) < 2 THEN parts
    ELSE LET g == Glue(parts[1], parts[2])
         IN  IF Len(g) = 1 THEN Join(g \o SubSeq(parts, 3, Len(parts)))
             ELSE <<parts[1]>> \o Join(Tail(parts))

\* the line made of the given parts
Pack(parts) ==
    LET j == Join(parts)
    IN  IF j = <<>> THEN BlankLine
        ELSE IF Len(j) = 1 /\ IsWhole(j[1]) THEN j[1].of
        ELSE RawLine(j)

\* the first c characters of a line, and the line without them
RECURSIVE TakeParts(_, _)
TakeParts(parts, c) ==
    IF c <= 0 \/ parts = <<>> THEN <<>>
    ELSE LET p == Head(parts)
             len == PartLength(p)
         IN  IF c >= len THEN <<p>> \o TakeParts(Tail(parts), c - len)
             ELSE Normal(Part(p.of, p.a, p.b + len - c))

RECURSIVE DropParts(_, _)
DropParts(parts, c) ==
    IF c <= 0 \/ parts = <<>> THEN parts
    ELSE LET p == Head(parts)
             len == PartLength(p)
         IN  IF c >= len THEN DropParts(Tail(parts), c - len)
             ELSE Normal(Part(p.of, p.a + c, p.b)) \o Tail(parts)

\* the heading a line ends with: a record starts where its heading is
\* written, on a line of its own or after the text of an unterminated line
HeadingOf(line) ==
    IF line.t = "## Email" THEN [has |-> TRUE, id |-> line.id]
    ELSE IF line.t # "raw" THEN [has |-> FALSE, id |-> 0]
    ELSE LET ps == Parts(line)
             last == ps[Len(ps)]
         IN  IF ps # <<>> /\ last.of.t = "## Email" /\ IsWhole(last)
             THEN [has |-> TRUE, id |-> last.of.id]
             ELSE [has |-> FALSE, id |-> 0]

\* a + b for two texts given as lines: the last line of a and the first
\* line of b become one line
Concat(a, b) ==
    LET x == a[Len(a)]
        y == b[1]
    IN  SubSeq(a, 1, Len(a) - 1) \o <<Pack(Parts(x) \o Parts(y))>> \o Tail(b)

\* len of lines lo to hi of a text, each with the "\n" that ends it
RECURSIVE LengthOf(_, _, _)
LengthOf(lines, lo, hi) ==
    IF lo > hi THEN 0
    ELSE IF lo = hi THEN Length(lines[lo]) + 1
    ELSE LET mid == (lo + hi) \div 2
         IN  LengthOf(lines, lo, mid) + LengthOf(lines, mid + 1, hi)

\* the position in a text at which line i starts, and len(text)
StartOf(lines, i) == LengthOf(lines, 1, i - 1)
TextLength(lines) == LengthOf(lines, 1, Len(lines)) - 1

\* the line of a text that position pos falls in, from line i on, and the
\* column there; a pos beyond the end falls at the end of the last line
RECURSIVE LineAt(_, _, _)
LineAt(lines, pos, i) ==
    IF i = Len(lines) \/ pos <= Length(lines[i])
    THEN [line |-> i, col |-> pos]
    ELSE LineAt(lines, pos - Length(lines[i]) - 1, i + 1)

\* text[:pos] and text[pos:] for a text given as lines, pos >= 0
SplitAt(lines, pos) ==
    LET at == LineAt(lines, pos, 1)
        parts == Parts(lines[at.line])
    IN  [before |-> SubSeq(lines, 1, at.line - 1) \o <<Pack(TakeParts(parts, at.col))>>,
         after |-> <<Pack(DropParts(parts, at.col))>>
                   \o SubSeq(lines, at.line + 1, Len(lines))]

\* the file HARO_EMAILS_MD_FILE: absent, or its lines ("" is one blank line)
NoFile == [exists |-> FALSE, lines |-> <<>>]
File(lines) == [exists |-> TRUE, lines |-> lines]

(***************************************************************************)
(* is_haro_email(sender, subject), lines 125-134.                          *)
(***************************************************************************)
HARO_SENDER_PATTERNS ==
    << <<"h","e","l","p","a","r","e","p","o","r","t","e","r">>,
       <<"h","a","r","o">>,
       <<"h","e","l","p"," ","a"," ","r","e","p","o","r","t","e","r">>,
       <<"q","w","o","t","e","d">>,
       <<"s","o","u","r","c","e","b","o","t","t","l","e">>,
       <<"j","o","u","r","n","o","r","e","q","u","e","s","t","s">> >>

is_haro_email(sender, subject) ==
    LET sender_lower == Lower(sender)
        subject_lower == Lower(subject)
    IN  \E k \in DOMAIN HARO_SENDER_PATTERNS :
            \/ Contains(sender_lower, HARO_SENDER_PATTERNS[k])
            \/ Contains(subject_lower, HARO_SENDER_PATTERNS[k])

(***************************************************************************)
(* The record process_haro_email builds (lines 376-383) and its rendering  *)
(* format_email_for_display(email_data, index, total), lines 528-546.      *)
(***************************************************************************)
EmailData(email_id, date, subject, sender, body) ==
    [email_id |-> email_id, email_date |-> date, email_subject |-> subject,
     email_sender |-> sender, email_body |-> body]

format_email_for_display(email_data, index, total) ==
    << HeadingLine(index + 1, total, email_data.email_id),
       BlankLine,
       SubjectLine(email_data.email_subject),
       DateLine(email_data.email_date),
       FromLine(email_data.email_sender),
       BlankLine,
       BodyMarkerLine,
       BlankLine,
       FenceLine >>
    \o email_data.email_body \o
    << FenceLine, BlankLine, SepLine, BlankLine >>

\* "\n".join of the renderings of emails, numbered from first + 1
RECURSIVE FormatAll(_, _, _)
FormatAll(emails, first, total) ==
    IF emails = <<>> THEN <<>>
    ELSE format_email_for_display(Head(emails), first, total)
         \o FormatAll(Tail(emails), first + 1, total)

\* lines 747-754, 617-621: the head of a file of records
HeaderLines(total, now) ==
    << TitleLine, BlankLine, TotalLine(total), GeneratedLine(now), BlankLine,
       SepLine, BlankLine >>

(***************************************************************************)
(* get_latest_email_date_from_markdown, lines 460-500.                     *)
(***************************************************************************)
\* index of the first line after i that is not blank, or 0
NextNonBlank(lines, i) ==
    LET later == {j \in DOMAIN lines : j > i /\ lines[j] # BlankLine}
    IN  IF later = {} THEN 0 ELSE CHOOSE j \in later : \A k \in later : j <= k

\* the first part of a line that holds the Date mark whole, or 0
DatePartOf(line) ==
    LET ps == Parts(line)
        hits == {k \in DOMAIN ps : /\ ps[k].of.t = "**Date:**"
                                   /\ ps[k].a = 0
                                   /\ ps[k].b <= TextLen(ps[k].of.text) + 1}
    IN  IF hits = {} THEN 0 ELSE Min(hits)

\* what follows a date text on its line: nothing, dashes to the end of the
\* line, or something else
Follow(parts) ==
    IF parts = <<>> THEN "none"
    ELSE IF \A k \in DOMAIN parts : DashCount(parts[k].of) > 0 THEN "dash"
    ELSE "other"

\* the date text without its last b characters, b <= 3: the zone is read
\* from the digits that are left of "+hhmm" (one or two digits as minutes,
\* three as h and mm)
CutZone(text, b) ==
    LET seconds == IF text.zone < 0 THEN 0 - text.zone ELSE text.zone
        hhmm == (seconds \div 3600) * 100 + ((seconds % 3600) \div 60)
        v == hhmm \div Pow10(b)
        offset == ((v \div 100) * 60 + (v % 100)) * 60
        minus == ~text.aware \/ text.zone < 0
    IN  IF v = 0 /\ minus THEN [text EXCEPT !.aware = FALSE, !.zone = 0]
        ELSE [text EXCEPT !.aware = TRUE, !.zone = IF minus THEN 0 - offset ELSE offset]

\* what parsedate_to_datetime reads in a date text that has lost its last
\* b characters and is followed on its line by follow, as the date text
\* that parses to the same: a zone that is not a number gives a naive
\* datetime, a time of day that is not hh:mm[:ss] gives no date
CutDate(text, b, follow) ==
    LET naive == [text EXCEPT !.aware = FALSE, !.zone = 0]
        ss == text.time % 60
        mm == (text.time \div 60) % 60
    IN  IF b = 0 /\ follow = "none" THEN text
        ELSE IF text.kind # "rfc2822" THEN OtherText
        ELSE IF b <= 3 /\ follow = "none" THEN CutZone(text, b)
        ELSE IF b <= 5 THEN naive
        ELSE IF follow = "other" THEN OtherText
        ELSE IF b = 6 THEN naive
        ELSE IF b = 7 THEN [naive EXCEPT !.time = text.time - ss + (ss \div 10)]
        ELSE IF b = 9 THEN [naive EXCEPT !.time = text.time - ss]
        ELSE IF b = 10 THEN [naive EXCEPT !.time = text.time - ss - 60 * mm + 60 * (mm \div 10)]
        ELSE OtherText

\* re.findall of the Date pattern (line 475) from line i on, each capture
\* stripped: the text from the mark to the end of the line, or, when the
\* line ends at the mark, the next line that is not blank (which the match
\* swallows)
RECURSIVE date_matches(_, _)
date_matches(lines, i) ==
    IF i > Len(lines) THEN <<>>
    ELSE LET ps == Parts(lines[i])
             k == DatePartOf(lines[i])
         IN  IF k = 0 THEN date_matches(lines, i + 1)
             ELSE LET text == ps[k].of.text
                      follows == SubSeq(ps, k + 1, Len(ps))
                      j == NextNonBlank(lines, i)
                  IN  IF TextLen(text) > ps[k].b
                      THEN <<CutDate(text, ps[k].b, Follow(follows))>>
                           \o date_matches(lines, i + 1)
                      ELSE IF follows # <<>>
                      THEN <<OtherText>> \o date_matches(lines, i + 1)
                      ELSE IF j = 0 THEN <<NoText>>
                      ELSE <<OtherText>> \o date_matches(lines, j + 1)

\* the for loop at lines 481-494; the TypeError of a comparison is caught
\* at line 492 like the errors of the parse, and the date is passed over
RECURSIVE LatestOf(_, _)
LatestOf(texts, latest_date) ==
    IF texts = <<>> THEN latest_date
    ELSE LET date_str == Head(texts)
             parsed_date == parsedate_to_datetime(date_str)
         IN  IF date_str = NoText THEN LatestOf(Tail(texts), latest_date)
             ELSE IF ~parsed_date.has THEN LatestOf(Tail(texts), latest_date)
             ELSE IF ~latest_date.has THEN LatestOf(Tail(texts), parsed_date)
             ELSE IF ~Comparable(parsed_date, latest_date)
             THEN LatestOf(Tail(texts), latest_date)
             ELSE IF Instant(parsed_date) > Instant(latest_date)
             THEN LatestOf(Tail(texts), parsed_date)
             ELSE LatestOf(Tail(texts), latest_date)

get_latest_email_date_from_markdown(md) ==
    IF ~md.exists THEN None
    ELSE LatestOf(date_matches(md.lines, 1), None)

(***************************************************************************)
(* Writing the file: open(HARO_EMAILS_MD_FILE, "w") and f.write(content).  *)
(* wr is what the file system does: "ok"; "open_error", the open raises    *)
(* and the file is as before; "write_error", the open has truncated the    *)
(* file and the write raises before anything reaches it.                   *)
(***************************************************************************)
WriteOutcomes == {"ok", "open_error", "write_error"}

WriteFile(md, lines, wr) ==
    IF wr = "ok" THEN File(lines)
    ELSE IF wr = "open_error" THEN md
    ELSE File(EmptyContent)

(***************************************************************************)
(* append_emails_to_markdown(new_emails), lines 549-656: the result and    *)
(* the file it leaves.  insert_position is computed on the text as read    *)
(* (lines 578-599) and applied to the text whose Total and Generated lines *)
(* have been rewritten (lines 627-645).                                    *)
(***************************************************************************)
IsTotal(p) == p.of.t = "**Total Emails:**" /\ IsWhole(p)
IsGenerated(p) == p.of.t = "**Generated:**" /\ p.a = 0 /\ p.b <= 20

\* the lines that hold a part p with Test(p), and the first such part of a
\* line
LinesWith(lines, Test(_)) ==
    {i \in DOMAIN lines : \E k \in DOMAIN Parts(lines[i]) : Test(Parts(lines[i])[k])}
FirstPart(line, Test(_)) ==
    Min({k \in DOMAIN Parts(line) : Test(Parts(line)[k])})

\* re.search of the Total pattern (line 572): the number of the first
\* match, 0 without one
TotalOf(lines) ==
    LET totals == LinesWith(lines, IsTotal)
    IN  IF totals = {} THEN 0
        ELSE LET line == lines[Min(totals)]
             IN  Parts(line)[FirstPart(line, IsTotal)].of.n

\* re.sub of the Total pattern, count=1 (lines 627-632)
SubTotal(lines, new_total) ==
    LET totals == LinesWith(lines, IsTotal)
        i == Min(totals)
        ps == Parts(lines[i])
    IN  IF totals = {} THEN lines
        ELSE [lines EXCEPT ![i] =
                 Pack([ps EXCEPT ![FirstPart(lines[i], IsTotal)] = Whole(TotalLine(new_total))])]

\* re.sub of the Generated pattern, count=1 (lines 634-639): the match
\* runs from the mark to the end of the line; when nothing but a space
\* follows the mark on its line, the match runs on over the blank lines to
\* the end of the next line that is not blank
SubGenerated(lines, now) ==
    LET generateds == LinesWith(lines, IsGenerated)
        i == Min(generateds)
        ps == Parts(lines[i])
        k == FirstPart(lines[i], IsGenerated)
        bare == k = Len(ps) /\ ps[k].b >= 19
        j == NextNonBlank(lines, i)
        line == Pack(SubSeq(ps, 1, k - 1) \o <<Whole(GeneratedLine(now))>>)
    IN  IF generateds = {} THEN lines
        ELSE IF ~bare \/ (j = 0 /\ ps[k].b = 19) THEN [lines EXCEPT ![i] = line]
        ELSE IF j = 0 THEN lines
        ELSE SubSeq(lines, 1, i - 1) \o <<line>> \o SubSeq(lines, j + 1, Len(lines))

append_emails_to_markdown(md, new_emails, now, wr) ==
    IF new_emails = <<>> THEN [ok |-> FALSE, md |-> md]
    ELSE
    LET existing_content == IF md.exists THEN md.lines ELSE EmptyContent
        current_total == TotalOf(existing_content)
        \* "\n---\n": a separator line with a line before and a line after it
        separators == {i \in DOMAIN existing_content :
                          /\ existing_content[i] = SepLine
                          /\ 1 < i
                          /\ i < Len(existing_content)}
        insert_position ==
            IF separators = {} THEN TextLength(existing_content)
            ELSE StartOf(existing_content, Max(separators) + 1)
        new_total == current_total + Len(new_emails)
        new_email_lines == FormatAll(new_emails, current_total, new_total)
        updated_content == SubGenerated(SubTotal(existing_content, new_total), now)
        cut == SplitAt(updated_content, insert_position)
        final_content ==
            IF existing_content = EmptyContent
            THEN HeaderLines(new_total, now) \o new_email_lines
            ELSE Concat(Concat(cut.before, new_email_lines), cut.after)
    IN  [ok |-> wr = "ok", md |-> WriteFile(md, final_content, wr)]

(***************************************************************************)
(* The mailbox: the messages of INBOX in arrival order; the email_id of a  *)
(* message is its position (the sequence number mail.search returns).      *)
(* internal is the day the server received it, which SINCE compares.      *)
(***************************************************************************)
Message(sender, subject, date, body, internal) ==
    [sender |-> sender, subject |-> subject, date |-> date, body |-> body,
     internal |-> internal]

SenderHaro == <<"H","A","R","O">>
SenderNews == <<"n","e","w","s">>
SubjectQ == <<"Q">>

\* the messages that can arrive on day d: a digest dated d; one without a
\* Date header; one dated the day before it is received; a message of
\* another sender; a digest without text; a digest whose text holds a Date
\* line of its own with a later date
Arrivals(d) ==
    { Message(SenderHaro, SubjectQ, RfcDate(d), <<TextLine>>, d),
      Message(SenderHaro, SubjectQ, NoText, <<TextLine>>, d),
      Message(SenderHaro, SubjectQ, RfcDate(d - 1), <<TextLine>>, d),
      Message(SenderNews, SubjectQ, RfcDate(d), <<TextLine>>, d),
      Message(SenderHaro, SubjectQ, RfcDate(d), EmptyContent, d),
      Message(SenderHaro, SubjectQ, RfcDate(d), <<TextLine, DateLine(RfcDate(d + DaysBack))>>, d) }

\* mail.search with the criterion SINCE date_since: the ids, ascending
RECURSIVE SearchSince(_, _, _)
SearchSince(box, date_since, i) ==
    IF i > Len(box) THEN <<>>
    ELSE (IF box[i].internal >= date_since THEN <<i>> ELSE <<>>)
         \o SearchSince(box, date_since, i + 1)

\* variant: without a watermark the search starts today
date_since_today(since_date, days_back, now) ==
    IF since_date.has THEN since_date.day + 1 ELSE now

\* search_haro_emails, lines 306-318: the day sent as SINCE
date_since(since_date, days_back, now) ==
    IF since_date.has THEN since_date.day + 1 ELSE now - days_back

\* variant: the first fetch that fails ends the loop over the window
search_haro_emails_stops_at_failure(box, since_date, days_back, now, how, failing) ==
    LET email_ids == SearchSince(box, date_since(since_date, days_back, now), 1)
        bad == {k \in DOMAIN email_ids : email_ids[k] \in failing}
        reached == IF bad = {} THEN email_ids ELSE SubSeq(email_ids, 1, Min(bad) - 1)
    IN  IF how # "ok" THEN <<>>
        ELSE SelectSeq(reached,
                       LAMBDA id : is_haro_email(box[id].sender, box[id].subject))

\* variant: every message of the window is returned, whatever its sender
search_haro_emails_unclassified(box, since_date, days_back, now, how, failing) ==
    LET email_ids == SearchSince(box, date_since(since_date, days_back, now), 1)
    IN  IF how # "ok" THEN <<>>
        ELSE SelectSeq(email_ids, LAMBDA id : id \notin failing)

\* search_haro_emails, lines 321-350: how is "ok", or select raises, or the
\* search status is not OK; failing holds the ids whose fetch does not
\* return the message
SearchHows == {"ok", "select_error", "search_not_ok"}

search_haro_emails(box, since_date, days_back, now, how, failing) ==
    LET email_ids == SearchSince(box, date_since(since_date, days_back, now), 1)
    IN  IF how # "ok" THEN <<>>
        ELSE SelectSeq(email_ids,
                       LAMBDA id : id \notin failing
                                   /\ is_haro_email(box[id].sender, box[id].subject))

\* process_haro_email(mail, email_id), lines 357-389: None is modelled as
\* has = FALSE
process_haro_email(box, email_id, fetch_ok) ==
    IF ~fetch_ok THEN [has |-> FALSE, data |-> EmailData(0, NoText, <<>>, <<>>, <<>>)]
    ELSE IF box[email_id].body = EmptyContent
    THEN [has |-> FALSE, data |-> EmailData(0, NoText, <<>>, <<>>, <<>>)]
    ELSE [has |-> TRUE,
          data |-> EmailData(email_id, box[email_id].date, box[email_id].subject,
                             box[email_id].sender, box[email_id].body)]

(***************************************************************************)
(* State.                                                                  *)
(*   ledger            rows of data/outreach_log.csv                       *)
(*   log_file          whether that file exists, its first line, whether   *)
(*                     its last line is terminated                         *)
(*   pc                position of process_messages: "idle" (not running), *)
(*                     "loop" (head of the for loop), "send" (about to     *)
(*                     call send_email), "log" (send_email returned),      *)
(*                     "blocked" (inside a relay call that never returns)  *)
(*   configured        SMTP_USER and SMTP_PASSWORD are both set            *)
(*   messages, idx     the list being processed and the loop position      *)
(*   already_contacted the dict loaded at line 256                         *)
(*   counts            sent_count, failed_count, skipped_count,            *)
(*                     already_sent_count                                  *)
(*   send_result       (success, error_msg) of the last send_email call    *)
(*   relay             what the run has done to the relay so far: sends    *)
(*                     that reached the relay (attempts), that the relay   *)
(*                     accepted (delivered), that left a connection open   *)
(*                     (leaked), that send_email reported as a success     *)
(*                     (succeeded)                                         *)
(*   exit              how the last run ended: "none", "no_file",          *)
(*                     "no_messages", "no_credentials", "summary",         *)
(*                     "raised" (an exception left process_messages)       *)
(*   summary           the counts printed at lines 354-361                 *)
(* History of the current run, for stating properties:                     *)
(*   run               number of runs started                              *)
(*   ledger0           the ledger when the run started                     *)
(*   outcome           terminal state of each item processed so far        *)
(*   validation        the validate_domain call made for the current item  *)
(***************************************************************************)
VARIABLES ledger, log_file, pc, configured, messages, idx, already_contacted,
          counts, send_result, relay, exit, summary, run, ledger0, outcome,
          validation

vars == <<ledger, log_file, pc, configured, messages, idx, already_contacted,
          counts, send_result, relay, exit, summary, run, ledger0, outcome,
          validation>>

(***************************************************************************)
(* State of the sync engine.                                               *)
(*   md                 data/haro_emails.md                                *)
(*   requests           the email_ids held by data/haro_requests.json      *)
(*   mailbox, today     INBOX and the current day                          *)
(*   sync_pc            position of main: "idle", "search" (connected),    *)
(*                      "process" (in the loop over haro_email_ids)        *)
(*   session            the IMAP session of the run: "none", "open",       *)
(*                      "closed" (logout was called)                       *)
(*   latest_date, is_incremental, haro_email_ids, existing_email_ids,      *)
(*   all_emails         the locals of main; sync_idx the loop position     *)
(*   sync_exit          how the last run ended                             *)
(* History, for stating properties:                                        *)
(*   sync_run           number of runs started                             *)
(*   md0                the file when the run started                      *)
(*   quiet              no mail has arrived and no day has passed since    *)
(*                      the last run started                               *)
(*   sync_log           what the run did: the day sent as SINCE, the day   *)
(*                      the search read from the clock (now), the ids      *)
(*                      the search returned (window), the ids whose        *)
(*                      message search_haro_emails fetched (classified)    *)
(*                      and those whose fetch failed there (unfetched),    *)
(*                      the ids skipped as known, the ids whose message    *)
(*                      process_haro_email fetched (processed) and those   *)
(*                      whose fetch failed there (unprocessed), the        *)
(*                      outcome of the write, whether every mailbox and    *)
(*                      file operation succeeded (clean) and whether the   *)
(*                      run started quiet after a clean run                *)
(***************************************************************************)
VARIABLES md, requests, mailbox, today, sync_pc, session, latest_date,
          is_incremental, haro_email_ids, sync_idx, existing_email_ids,
          all_emails, sync_run, sync_exit, md0, quiet, sync_log

svars == <<md, requests, mailbox, today, sync_pc, session, latest_date,
           is_incremental, haro_email_ids, sync_idx, existing_email_ids,
           all_emails, sync_run, sync_exit, md0, quiet, sync_log>>

\* the sync engine before its first run
NoLog ==
    [ since |-> 0, now |-> 0, searched |-> FALSE, window |-> <<>>, classified |-> {},
      unfetched |-> {}, known |-> {}, processed |-> {}, unprocessed |-> {},
      wrote |-> "none", clean |-> FALSE, quiet |-> FALSE ]

SyncAtRest ==
    /\ md = NoFile
    /\ requests = {}
    /\ mailbox = <<>>
    /\ today = 0
    /\ sync_pc = "idle"
    /\ session = "none"
    /\ latest_date = None
    /\ is_incremental = FALSE
    /\ haro_email_ids = <<>>
    /\ sync_idx = 1
    /\ existing_email_ids = {}
    /\ all_emails = <<>>
    /\ sync_run = 0
    /\ sync_exit = "none"
    /\ md0 = NoFile
    /\ quiet = FALSE
    /\ sync_log = NoLog

ZeroCounts ==
    [sent_count |-> 0, failed_count |-> 0, skipped_count |-> 0, already_sent_count |-> 0]
NoRelay == [attempts |-> 0, delivered |-> 0, leaked |-> 0, succeeded |-> 0]
NoResult == SendResult(FALSE, Msg("none", FALSE, FALSE), NoContact)
NoValidation ==
    [called |-> FALSE, domain |-> <<>>, dns |-> "none", mx |-> "none",
     ok |-> FALSE, err |-> ""]
NoSummary == [printed |-> FALSE, counts |-> ZeroCounts, total |-> 0]

\* the state before the first run, with the ledger one of ledgers
InitOn(ledgers) ==
    /\ \E l \in ledgers : log_file = l.file /\ ledger = l.rows
    /\ pc = "idle"
    /\ configured = FALSE
    /\ messages = <<>>
    /\ idx = 1
    /\ already_contacted = EmptyDict
    /\ counts = ZeroCounts
    /\ send_result = NoResult
    /\ relay = NoRelay
    /\ exit = "none"
    /\ summary = NoSummary
    /\ run = 0
    /\ ledger0 = ledger
    /\ outcome = <<>>
    /\ validation = NoValidation
    /\ SyncAtRest

Init == InitOn(InitialLedgers)

Terminal(state, hint) == [state |-> state, hint |-> hint]

(***************************************************************************)
(* process_messages, lines 240-277: read the messages, load the dict of    *)
(* contacted pairs, check the credentials, zero the counters.              *)
(***************************************************************************)
\* variant: without credentials the run goes on with the loop, in which
\* send_email refuses every send
StartRunOn_forms_without_credentials(files) ==
    /\ pc = "idle"
    /\ run < MaxRuns
    /\ \E file \in files, cfg \in BOOLEAN :
          /\ Len(ledger) + Len(file.content) <= MaxLedger
          /\ configured' = cfg
          /\ IF ~file.exists
             THEN /\ exit' = "no_file"
                  /\ pc' = "idle"
                  /\ messages' = <<>>
                  /\ already_contacted' = EmptyDict
             ELSE IF file.content = <<>>
             THEN /\ exit' = "no_messages"
                  /\ pc' = "idle"
                  /\ messages' = <<>>
                  /\ already_contacted' = EmptyDict
             ELSE /\ messages' = file.content
                  /\ already_contacted' = get_already_contacted(log_file, ledger)
                  /\ exit' = IF cfg THEN "none" ELSE "no_credentials"
                  /\ pc' = "loop"
    /\ run' = run + 1
    /\ idx' = 1
    /\ counts' = ZeroCounts
    /\ send_result' = NoResult
    /\ relay' = NoRelay
    /\ summary' = NoSummary
    /\ ledger0' = ledger
    /\ outcome' = <<>>
    /\ validation' = NoValidation
    /\ UNCHANGED <<ledger, log_file>>
    /\ UNCHANGED svars

StartRunOn(files) ==
    /\ pc = "idle"
    /\ run < MaxRuns
    /\ \E file \in files, cfg \in BOOLEAN :
          /\ Len(ledger) + Len(file.content) <= MaxLedger
          /\ configured' = cfg
          /\ IF ~file.exists
             THEN /\ exit' = "no_file"
                  /\ pc' = "idle"
                  /\ messages' = <<>>
                  /\ already_contacted' = EmptyDict
             ELSE IF file.content = <<>>
             THEN /\ exit' = "no_messages"
                  /\ pc' = "idle"
                  /\ messages' = <<>>
                  /\ already_contacted' = EmptyDict
             ELSE /\ messages' = file.content
                  /\ already_contacted' = get_already_contacted(log_file, ledger)
                  /\ IF ~cfg
                     THEN exit' = "no_credentials" /\ pc' = "idle"
                     ELSE exit' = "none" /\ pc' = "loop"
    /\ run' = run + 1
    /\ idx' = 1
    /\ counts' = ZeroCounts
    /\ send_result' = NoResult
    /\ relay' = NoRelay
    /\ summary' = NoSummary
    /\ ledger0' = ledger
    /\ outcome' = <<>>
    /\ validation' = NoValidation
    /\ UNCHANGED <<ledger, log_file>>
    /\ UNCHANGED svars

StartRun == StartRunOn(MessageFiles)

\* lines 286-301: the key looked up in already_contacted (<<>> when the item
\* has neither address nor form URL, and no lookup is made)
\*
\* variant: the form URL is the key of every item that has one
ContactKey_form_first(m) ==
    IF m.contact_form_url # <<>> THEN <<Lower(m.site), Lower(m.contact_form_url)>>
    ELSE IF m.to # <<>> THEN <<Lower(m.site), Lower(m.to)>>
    ELSE <<>>

ContactKey(m) ==
    IF m.to # <<>> THEN <<Lower(m.site), Lower(m.to)>>
    ELSE IF m.contact_form_url # <<>> THEN <<Lower(m.site), Lower(m.contact_form_url)>>
    ELSE <<>>

\* variant: a row of any status for the pair counts as a contact
IsAlreadyContacted_any_status(m, dict) ==
    /\ ContactKey(m) # <<>>
    /\ \E i \in DOMAIN ledger0 :
          <<Lower(Strip(ledger0[i].site)), Lower(Strip(ledger0[i].contact))>> = ContactKey(m)

IsAlreadyContacted(m, dict) ==
    ContactKey(m) # <<>> /\ ContactKey(m) \in DOMAIN dict

\* variant: the skipped counter is not incremented
Bump_skipped_forgotten(c, field) ==
    IF field = "skipped_count" THEN c ELSE [c EXCEPT ![field] = @ + 1]

Bump(c, field) == [c EXCEPT ![field] = @ + 1]

\* variant: an item whose fallback is surfaced is taken up again
Finish_retrying_fallback(state, hint) ==
    /\ outcome' = Append(outcome, Terminal(state, hint))
    /\ idx' = IF hint THEN idx ELSE idx + 1
    /\ pc' = "loop"
    /\ exit' = exit

\* the end of one iteration: continue, or fall off the end of the loop body
Finish(state, hint) ==
    /\ outcome' = Append(outcome, Terminal(state, hint))
    /\ idx' = idx + 1
    /\ pc' = "loop"
    /\ exit' = exit

\* print(...) of a line made of the texts returns
Shows(texts) == \A i \in DOMAIN texts : Encodable(texts[i])

\* An exception raised in the loop body, which has no handler: it leaves
\* process_messages, no later line of the run is reached.
Abort ==
    /\ pc' = "idle"
    /\ exit' = "raised"

\* the exception comes before the item has a ledger row
AbortBeforeRow ==
    /\ Abort
    /\ UNCHANGED <<counts, outcome, idx>>

\* the exception comes from the print of the fallback, after the row of
\* the item was written: the item has its terminal state, its fallback is
\* not surfaced
AbortAfterRow(state) ==
    /\ Abort
    /\ outcome' = Append(outcome, Terminal(state, FALSE))
    /\ idx' = idx

\* a call of log_submission
Log(site, contact, status) ==
    LET written == log_submission(log_file, ledger, site, contact, status)
    IN  ledger' = written.rows /\ log_file' = written.file

\* the call raises
LogRaises(site, contact, status) ==
    log_submission(log_file, ledger, site, contact, status).raised

(***************************************************************************)
(* One iteration of the for loop up to the send_email call, lines 279-338. *)
(***************************************************************************)
ProcessItem ==
    /\ pc = "loop"
    /\ idx <= Len(messages)
    /\ LET m == messages[idx]
           domain == extract_domain_from_email(m.to)
           contact == IF m.to # <<>> THEN m.to ELSE m.contact_form_url
           logged == IF m.contact_form_url # <<>> THEN m.contact_form_url
                     ELSE NOT_AVAILABLE
       IN  IF IsAlreadyContacted(m, already_contacted)
           THEN \* lines 291 and 299: print, then count
                /\ IF Shows(<<m.site, contact>>)
                   THEN /\ counts' = Bump(counts, "already_sent_count")
                        /\ Finish("ALREADY_CONTACTED", FALSE)
                   ELSE AbortBeforeRow
                /\ validation' = NoValidation
                /\ UNCHANGED <<ledger, log_file>>
           ELSE IF m.to = <<>>
           THEN \* lines 304-321: the row, then the counter
                /\ Log(m.site, logged, STATUS_SKIPPED)
                /\ IF LogRaises(m.site, logged, STATUS_SKIPPED)
                   THEN AbortBeforeRow
                   ELSE /\ counts' = Bump(counts, "skipped_count")
                        /\ Finish("SKIPPED_NO_CONTACT", FALSE)
                /\ validation' = NoValidation
           ELSE IF ~Shows(<<m.site, m.to>>)
           THEN \* the print of line 326 (with a domain) or of line 338
                /\ AbortBeforeRow
                /\ validation' = NoValidation
                /\ UNCHANGED <<ledger, log_file>>
           ELSE IF domain = <<>>
           THEN /\ pc' = "send"
                /\ validation' = NoValidation
                /\ UNCHANGED <<ledger, log_file, counts, outcome, idx, exit>>
           ELSE \E l \in Lookups(domain) :
                   LET v == validate_domain(domain, l.dns, l.mx)
                   IN  /\ validation' =
                              [called |-> TRUE, domain |-> domain, dns |-> l.dns,
                               mx |-> l.mx, ok |-> v.ok, err |-> v.err]
                       /\ IF ~v.ok
                          THEN \* lines 329-335: the row, the counter, then
                               \* the print of the fallback
                               /\ Log(m.site, m.to, STATUS_FAILED)
                               /\ counts' = Bump(counts, "failed_count")
                               /\ IF Shows(<<m.contact_form_url>>)
                                  THEN Finish("DOMAIN_INVALID", m.contact_form_url # <<>>)
                                  ELSE AbortAfterRow("DOMAIN_INVALID")
                          ELSE /\ pc' = "send"
                               /\ UNCHANGED <<ledger, log_file, counts, outcome, idx, exit>>
    /\ UNCHANGED <<configured, messages, already_contacted, send_result, relay,
                   summary, run, ledger0>>
    /\ UNCHANGED svars

(***************************************************************************)
(* Line 339: send_email(to_email, subject, message,                        *)
(* validate_domain_first=False).  When the relay keeps a call from         *)
(* returning, the run stays in send_email for ever (pc "blocked"): nothing *)
(* is assigned to (success, error_msg) and no later line is reached.       *)
(***************************************************************************)
SendEmail ==
    /\ pc = "send"
    /\ LET m == messages[idx]
           \* what the call can do, over everything the relay can do
           results == {send_email(m.to, m.subject, m.message, FALSE, configured,
                                  "ok", "records", r) : r \in RelayBehaviours}
       IN  \E res \in results :
              /\ send_result' = IF res.returns THEN res ELSE NoResult
              /\ relay' =
                    [ attempts  |-> relay.attempts + (IF res.contact.attempted THEN 1 ELSE 0),
                      delivered |-> relay.delivered + (IF res.contact.delivered THEN 1 ELSE 0),
                      leaked    |-> relay.leaked + (IF res.contact.leaked THEN 1 ELSE 0),
                      succeeded |-> relay.succeeded + (IF res.success THEN 1 ELSE 0) ]
              /\ pc' = IF res.returns THEN "log" ELSE "blocked"
    /\ validation' = NoValidation
    /\ UNCHANGED <<ledger, log_file, configured, messages, idx, already_contacted, counts,
                   exit, summary, run, ledger0, outcome>>
    /\ UNCHANGED svars

(***************************************************************************)
(* Lines 341-352: record the result of send_email.                         *)
(***************************************************************************)
LogResult ==
    /\ pc = "log"
    /\ LET m == messages[idx]
           hint == is_domain_error(send_result.error_msg) /\ m.contact_form_url # <<>>
       IN  IF send_result.success
           THEN /\ Log(m.site, m.to, STATUS_SENT)
                /\ counts' = Bump(counts, "sent_count")
                /\ Finish("SENT", FALSE)
           ELSE \* lines 346-352: the row, the print of the fallback, then
                \* the counter
                /\ Log(m.site, m.to, STATUS_FAILED)
                /\ IF hint /\ ~Shows(<<m.contact_form_url>>)
                   THEN /\ AbortAfterRow("FAILED")
                        /\ UNCHANGED counts
                   ELSE /\ counts' = Bump(counts, "failed_count")
                        /\ Finish("FAILED", hint)
    /\ send_result' = NoResult
    /\ UNCHANGED <<configured, messages, already_contacted, relay,
                   summary, run, ledger0, validation>>
    /\ UNCHANGED svars

(***************************************************************************)
(* Lines 354-361: the loop is over, print the summary.                     *)
(***************************************************************************)
PrintSummary ==
    /\ pc = "loop"
    /\ idx > Len(messages)
    /\ summary' = [printed |-> TRUE, counts |-> counts, total |-> Len(messages)]
    /\ exit' = "summary"
    /\ pc' = "idle"
    /\ UNCHANGED <<ledger, log_file, configured, messages, idx, already_contacted, counts,
                   send_result, relay, run, ledger0, outcome, validation>>
    /\ UNCHANGED svars

Next == StartRun \/ ProcessItem \/ SendEmail \/ LogResult \/ PrintSummary

Spec == Init /\ [][Next]_vars

(***************************************************************************)
(* A run is one sequential process: once started it keeps taking steps     *)
(* until process_messages returns or a relay call blocks.  Every step of a *)
(* run moves pc or idx, and a step is possible exactly while pc is "loop", *)
(* "send" or "log", so the progress of the run is weak fairness of         *)
(* Advance.  The step into "blocked" is no Advance step: fairness makes    *)
(* the interpreter go on, it does not make the relay answer.               *)
(***************************************************************************)
Advance ==
    /\ pc \in {"loop", "send", "log"}
    /\ pc' \in {"loop", "send", "log", "idle"}
    /\ idx' \in {idx, idx + 1}
    /\ <<pc', idx'>> # <<pc, idx>>

FairSpec == Spec /\ WF_<<pc, idx>>(Advance)

(***************************************************************************)
(* The dispatch engine on a second set of inputs: items whose to_email is  *)
(* not a well-formed address (no "@", nothing after the "@", a host of one *)
(* label), an item with a well-formed address and a form URL, an item with *)
(* the same form URL and no address, an item whose message is null, and a  *)
(* ledger in which a row entered out of band is keyed by that form URL.    *)
(***************************************************************************)
AddressItems ==
    { Item(SiteBd, MailNoAt, FormUrl),
      Item(SiteBd, MailNoDomain, <<>>),
      Item(SiteBd, MailOneLabel, <<>>),
      Item(SiteAc, MailAB, FormUrl),
      Item(SiteAc, <<>>, FormUrl),
      WithoutMessage(Item(SiteBd, MailAB, <<>>)) }

AddressFiles ==
    {[exists |-> FALSE, content |-> <<>>]}
    \cup {[exists |-> TRUE, content |-> b] : b \in SeqsUpTo(AddressItems, MaxBatch)}

AddressLedgers ==
    { Ledger(HeadedLogFile, <<Row(SiteAcUpper, FormUrl, <<"O","p","e","n","e","d">>)>>) }

AddressInit == InitOn(AddressLedgers)

AddressStartRun == StartRunOn(AddressFiles)

AddressNext ==
    AddressStartRun \/ ProcessItem \/ SendEmail \/ LogResult \/ PrintSummary

AddressSpec == AddressInit /\ [][AddressNext]_vars

(***************************************************************************)
(* The dispatch engine on a third set of inputs: items of which one text   *)
(* holds an unpaired surrogate (the site, the address, the form URL, the   *)
(* subject, the message) and items whose subject holds an embedded header, *)
(* with no ledger file before the first run.                               *)
(***************************************************************************)
EncodingItems ==
    { Item(SiteSurrogate, MailBadLabel, <<>>),
      Item(SiteSurrogate, <<>>, <<>>),
      Item(SiteBd, LoneSurrogate, <<>>),
      Item(SiteBd, MailAB, LoneSurrogate),
      [Item(SiteBd, MailAB, <<>>) EXCEPT !.subject = LoneSurrogate],
      [Item(SiteBd, MailAB, <<>>) EXCEPT !.message = LoneSurrogate],
      [Item(SiteBd, MailAB, <<>>) EXCEPT !.subject = SubjectEmbedded],
      [Item(SiteBd, MailAB, FormUrl) EXCEPT !.subject = SubjectDomainEmbedded] }

EncodingFiles ==
    {[exists |-> FALSE, content |-> <<>>]}
    \cup {[exists |-> TRUE, content |-> b] : b \in SeqsUpTo(EncodingItems, MaxBatch)}

EncodingLedgers == {Ledger(NoLogFile, <<>>)}

EncodingInit == InitOn(EncodingLedgers)

EncodingStartRun == StartRunOn(EncodingFiles)

EncodingNext ==
    EncodingStartRun \/ ProcessItem \/ SendEmail \/ LogResult \/ PrintSummary

EncodingSpec == EncodingInit /\ [][EncodingNext]_vars

(***************************************************************************)
(* The sync engine as a state machine.  The dispatch engine is idle with   *)
(* an empty ledger throughout.                                             *)
(***************************************************************************)
\* data/haro_requests.json as load_existing_requests finds it: absent (or
\* unreadable), or holding the record of message 1.
RequestFiles == {{}, {1}}

\* save_requests(requests), lines 405-413: the file then holds the given
\* records, whatever it held before.  No step of main calls it; a caller
\* of the module does, between two runs (action SaveRequests).
save_requests(file, new_requests) ==
    {new_requests[k].email_id : k \in DOMAIN new_requests}

\* the lists save_requests is called with: no record, or the record of
\* message 1 of the mailbox
RequestLists(box) ==
    {<<>>} \cup (IF box = <<>> THEN {}
                 ELSE {<<EmailData(1, box[1].date, box[1].subject, box[1].sender,
                                   box[1].body)>>})

\* what the first run of the model finds: nothing, or the mailbox and the
\* file an earlier run has left, which stored the one digest of day 0
EarlierMailbox == <<Message(SenderHaro, SubjectQ, RfcDate(0), <<TextLine>>, 0)>>

EarlierFile ==
    File(HeaderLines(1, 0)
         \o FormatAll(<<process_haro_email(EarlierMailbox, 1, TRUE).data>>, 0, 1))

InitialStores ==
    {[md |-> NoFile, mailbox |-> <<>>, requests |-> r] : r \in RequestFiles}
    \cup {[md |-> EarlierFile, mailbox |-> EarlierMailbox, requests |-> {}]}

SyncInit ==
    /\ ledger = <<>>
    /\ log_file = NoLogFile
    /\ pc = "idle"
    /\ configured = FALSE
    /\ messages = <<>>
    /\ idx = 1
    /\ already_contacted = EmptyDict
    /\ counts = ZeroCounts
    /\ send_result = NoResult
    /\ relay = NoRelay
    /\ exit = "none"
    /\ summary = NoSummary
    /\ run = 0
    /\ ledger0 = <<>>
    /\ outcome = <<>>
    /\ validation = NoValidation
    /\ \E st \in InitialStores :
          /\ md = st.md
          /\ mailbox = st.mailbox
          /\ requests = st.requests
          /\ md0 = st.md
    /\ today = 0
    /\ sync_pc = "idle"
    /\ session = "none"
    /\ latest_date = None
    /\ is_incremental = FALSE
    /\ haro_email_ids = <<>>
    /\ sync_idx = 1
    /\ existing_email_ids = {}
    /\ all_emails = <<>>
    /\ sync_run = 0
    /\ sync_exit = "none"
    /\ quiet = FALSE
    /\ sync_log = NoLog

\* what is left of a run once the environment moves on: the files only
Forgotten ==
    /\ session' = "none"
    /\ sync_exit' = "none"
    /\ md0' = md
    /\ sync_log' = NoLog
    /\ quiet' = FALSE
    /\ UNCHANGED <<md, sync_pc, latest_date, is_incremental,
                   haro_email_ids, sync_idx, existing_email_ids, all_emails, sync_run>>

\* a message arrives between two runs
Deliver ==
    /\ sync_pc = "idle"
    /\ Len(mailbox) < MaxMail
    /\ \E m \in Arrivals(today) : mailbox' = Append(mailbox, m)
    /\ Forgotten
    /\ UNCHANGED <<requests, today>>
    /\ UNCHANGED vars

\* save_requests is called between two runs, lines 405-413
SaveRequests ==
    /\ sync_pc = "idle"
    /\ \E new_requests \in RequestLists(mailbox) :
          requests' = save_requests(requests, new_requests)
    /\ Forgotten
    /\ UNCHANGED <<mailbox, today>>
    /\ UNCHANGED vars

\* a day passes, between two runs or during one (the run reads the clock
\* at line 317 and again at line 618, 636 or 751)
Tick ==
    /\ today < MaxDay
    /\ today' = today + 1
    /\ IF sync_pc = "idle"
       THEN Forgotten
       ELSE /\ quiet' = FALSE
            /\ UNCHANGED <<md, sync_pc, session, latest_date,
                           is_incremental, haro_email_ids, sync_idx,
                           existing_email_ids, all_emails, sync_run, sync_exit,
                           md0, sync_log>>
    /\ UNCHANGED <<requests, mailbox>>
    /\ UNCHANGED vars

\* connect_to_email, lines 270-288
ConnectOutcomes == {"ok", "no_credentials", "auth_failed", "connect_failed"}

\* variant: a run that cannot connect leaves the notice file of a run that
\* found nothing
GiveUp_leaving_notice(c) ==
    /\ session' = "none"
    /\ sync_pc' = "idle"
    /\ sync_exit' = c
    /\ md' = IF md.exists THEN md
             ELSE File(<<TitleLine, BlankLine, NoMailLine, BlankLine>>)

\* main, lines 685-687: connect_to_email returned None
GiveUp(c) ==
    /\ session' = "none"
    /\ sync_pc' = "idle"
    /\ sync_exit' = c
    /\ md' = md

(***************************************************************************)
(* main, lines 659-687: the watermark, then the connection.                *)
(***************************************************************************)
StartOfRun(n) ==
    /\ sync_pc = "idle"
    /\ LET latest == IF md.exists THEN get_latest_email_date_from_markdown(md) ELSE None
       IN  /\ latest_date' = latest
           /\ is_incremental' = latest.has
    /\ \E c \in ConnectOutcomes :
          IF c = "ok"
          THEN /\ session' = "open"
               /\ sync_pc' = "search"
               /\ sync_exit' = "none"
               /\ md' = md
          ELSE GiveUp(c)
    /\ sync_run' = n
    /\ md0' = md
    /\ sync_log' = [NoLog EXCEPT !.quiet = (quiet /\ sync_log.clean)]
    /\ quiet' = TRUE
    /\ haro_email_ids' = <<>>
    /\ sync_idx' = 1
    /\ existing_email_ids' = {}
    /\ all_emails' = <<>>
    /\ UNCHANGED <<requests, mailbox, today>>
    /\ UNCHANGED vars

SyncStart ==
    /\ sync_run < MaxSyncRuns
    /\ StartOfRun(sync_run + 1)

\* variant: logout is called only when the run ends without an error
Leave_logout_on_success(kind) ==
    /\ session' = IF kind \in {"error", "append_failed"} THEN "open" ELSE "closed"
    /\ sync_pc' = "idle"
    /\ sync_exit' = kind

\* the finally clause, lines 768-772, and the end of main
Leave(kind) ==
    /\ session' = "closed"
    /\ sync_pc' = "idle"
    /\ sync_exit' = kind

\* lines 696-707 and 724-735: nothing to store; a first run leaves a file
\* that says so
NothingFound(line, kind, log) ==
    IF ~is_incremental /\ ~md.exists
    THEN \E wr \in WriteOutcomes :
            /\ md' = WriteFile(md, <<TitleLine, BlankLine, line, BlankLine>>, wr)
            /\ sync_log' = [log EXCEPT !.wrote = wr, !.clean = (log.clean /\ wr = "ok")]
            /\ Leave(IF wr = "ok" THEN kind ELSE "error")
    ELSE /\ md' = md
         /\ sync_log' = log
         /\ Leave(kind)

(***************************************************************************)
(* main, lines 689-713: search_haro_emails, then load_existing_requests.   *)
(***************************************************************************)
Search ==
    /\ sync_pc = "search"
    /\ \E how \in SearchHows :
       LET since_date == IF is_incremental THEN latest_date ELSE None
           window == SearchSince(mailbox, date_since(since_date, DaysBack, today), 1)
       IN  \E failing \in SUBSET Range(window) :
           LET found == search_haro_emails(mailbox, since_date, DaysBack, today, how, failing)
               log == [sync_log EXCEPT !.since = date_since(since_date, DaysBack, today),
                                       !.now = today,
                                       !.searched = TRUE,
                                       !.window = IF how = "ok" THEN window ELSE <<>>,
                                       !.classified = IF how = "ok" THEN Range(window) ELSE {},
                                       !.unfetched = failing,
                                       !.clean = (how = "ok" /\ failing = {})]
           IN  /\ how # "ok" => failing = {}
               /\ haro_email_ids' = found
               /\ IF found = <<>>
                  THEN /\ NothingFound(NoMailLine, "no_mail", log)
                       /\ UNCHANGED existing_email_ids
                  ELSE /\ existing_email_ids' = requests
                       /\ sync_pc' = "process"
                       /\ sync_log' = log
                       /\ UNCHANGED <<md, session, sync_exit>>
    /\ UNCHANGED <<requests, mailbox, today, latest_date, is_incremental, sync_idx,
                   all_emails, sync_run, md0, quiet>>
    /\ UNCHANGED vars

\* variant: no id is passed over
IsKnown_never(email_id, known) == FALSE

\* variant: only the ids after the first known one are passed over
IsKnown_after_first(email_id, known) ==
    \E k \in known : k < email_id

\* line 717
IsKnown(email_id, known) == email_id \in known

(***************************************************************************)
(* main, lines 716-722: one iteration of the loop over haro_email_ids.     *)
(***************************************************************************)
ProcessMessage ==
    /\ sync_pc = "process"
    /\ sync_idx <= Len(haro_email_ids)
    /\ LET email_id == haro_email_ids[sync_idx]
       IN  IF IsKnown(email_id, existing_email_ids)
           THEN /\ sync_log' = [sync_log EXCEPT !.known = @ \cup {email_id}]
                /\ UNCHANGED all_emails
           ELSE \E fetch_ok \in BOOLEAN :
                   LET email_data == process_haro_email(mailbox, email_id, fetch_ok)
                   IN  /\ all_emails' = IF email_data.has
                                        THEN Append(all_emails, email_data.data)
                                        ELSE all_emails
                       /\ sync_log' =
                             [sync_log EXCEPT
                                 !.processed = @ \cup {email_id},
                                 !.unprocessed = IF fetch_ok THEN @ ELSE @ \cup {email_id},
                                 !.clean = (@ /\ fetch_ok)]
    /\ sync_idx' = sync_idx + 1
    /\ UNCHANGED <<md, requests, mailbox, today, sync_pc, session, latest_date,
                   is_incremental, haro_email_ids, existing_email_ids, sync_run,
                   sync_exit, md0, quiet>>
    /\ UNCHANGED vars

(***************************************************************************)
(* main, lines 724-772: the loop is over; write the file and log out.      *)
(***************************************************************************)
WriteStore ==
    /\ sync_pc = "process"
    /\ sync_idx > Len(haro_email_ids)
    /\ IF all_emails = <<>>
       THEN NothingFound(NoNewMailLine, "nothing_new", sync_log)
       ELSE \E wr \in WriteOutcomes :
               /\ sync_log' = [sync_log EXCEPT !.wrote = wr, !.clean = (@ /\ wr = "ok")]
               /\ IF is_incremental
                  THEN LET r == append_emails_to_markdown(md, all_emails, today, wr)
                       IN  /\ md' = r.md
                           /\ Leave(IF r.ok THEN "appended" ELSE "append_failed")
                  ELSE /\ md' = WriteFile(md, HeaderLines(Len(all_emails), today)
                                              \o FormatAll(all_emails, 0, Len(all_emails)),
                                          wr)
                       /\ Leave(IF wr = "ok" THEN "saved" ELSE "error")
    /\ UNCHANGED <<requests, mailbox, today, latest_date, is_incremental,
                   haro_email_ids, sync_idx, existing_email_ids, all_emails,
                   sync_run, md0, quiet>>
    /\ UNCHANGED vars

\* SyncSpec takes MaxSyncRuns runs; it takes the steps of the environment
\* that a run can still follow
SyncDeliver == sync_run < MaxSyncRuns /\ Deliver

SyncTick == (sync_pc # "idle" \/ sync_run < MaxSyncRuns) /\ Tick

SyncSaveRequests == sync_run < MaxSyncRuns /\ SaveRequests

SyncNext ==
    SyncDeliver \/ SyncTick \/ SyncSaveRequests \/ SyncStart \/ Search
    \/ ProcessMessage \/ WriteStore

SyncSpec == SyncInit /\ [][SyncNext]_<<vars, svars>>

(***************************************************************************)
(* The sync engine with a reachable mailbox: every run connects, every     *)
(* mailbox and file operation succeeds, and runs keep being started, also  *)
(* after MaxSyncRuns of them (sync_run then stays at MaxSyncRuns), as long *)
(* as the file holds no more records than the mailbox can hold messages.   *)
(* main is sequential: a run that has started takes its steps until it     *)
(* returns.  Every step of a run moves sync_pc or sync_idx, and one is     *)
(* possible exactly while sync_pc is "search" or "process"; a run can      *)
(* start while sync_pc is "idle".                                          *)
(***************************************************************************)
CanStart ==
    \/ sync_run < MaxSyncRuns
    \/ Cardinality({i \in DOMAIN md.lines : HeadingOf(md.lines[i]).has}) <= MaxMail

ConnectedStart ==
    /\ CanStart
    /\ StartOfRun(IF sync_run < MaxSyncRuns THEN sync_run + 1 ELSE sync_run)
    /\ sync_pc' = "search"

CleanSearch == Search /\ sync_log'.clean

CleanProcessMessage == ProcessMessage /\ sync_log'.clean

CleanWriteStore == WriteStore /\ sync_log'.clean

ReachableNext ==
    Deliver \/ Tick \/ SaveRequests \/ ConnectedStart \/ CleanSearch
    \/ CleanProcessMessage \/ CleanWriteStore

SyncAdvance ==
    /\ sync_pc' \in {"idle", "search", "process"}
    /\ sync_idx' \in {1, sync_idx, sync_idx + 1}
    /\ \/ /\ sync_pc # "idle"
          /\ <<sync_pc', sync_idx'>> # <<sync_pc, sync_idx>>
       \/ /\ sync_pc = "idle"
          /\ CanStart
          /\ sync_pc' = "search"

FairSyncSpec ==
    /\ SyncInit
    /\ [][ReachableNext]_<<vars, svars>>
    /\ WF_<<sync_pc, sync_idx>>(SyncAdvance)

(***************************************************************************)
(* Properties.                                                             *)
(***************************************************************************)
IsPrefix(a, b) == Len(a) <= Len(b) /\ SubSeq(b, 1, Len(a)) = a

\* rows appended by the current run
RunRows == SubSeq(ledger, Len(ledger0) + 1, Len(ledger))

\* positions of the current batch that ended in a state that writes a row
Logged(n) == {j \in 1..n : outcome[j].state # "ALREADY_CONTACTED"}

\* the ledger row written for position i of the current batch
RowOf(i) == ledger[Len(ledger0) + Cardinality(Logged(i))]

\* led holds a sent or opened row for the lower-cased pair of (site, contact)
Satisfied(led, site, contact) ==
    \E i \in DOMAIN led :
        /\ led[i].status \in {STATUS_SENT, STATUS_OPENED}
        /\ Lower(led[i].site) = Lower(site)
        /\ Lower(led[i].contact) = Lower(contact)

\* C1: once the ledger holds a sent or opened row for a (site, contact)
\* pair, no relay send is attempted for an item whose lower-cased
\* (site, to_email) equals that pair, also in the middle of a run.
C1_NoSendToSatisfiedPair ==
    (pc = "log" /\ send_result.contact.attempted)
        => ~Satisfied(ledger, messages[idx].site, messages[idx].to)

\* C2: an item whose domain validates and whose send succeeds ends as SENT
\* with one sent row; in every later run (one that finds that sent row in
\* the ledger) in which its domain would validate, the same item ends as
\* ALREADY_CONTACTED: it does not pass the contacted check towards the
\* relay and is not sent or logged again.
C2_SentThenAlreadyContacted ==
    /\ \A i \in DOMAIN outcome :
          LET m == messages[i]
          IN  /\ outcome[i].state = "SENT" => RowOf(i) = Row(m.site, m.to, STATUS_SENT)
              /\ (m.to # <<>> /\ \E k \in DOMAIN ledger0 :
                                     ledger0[k] = Row(m.site, m.to, STATUS_SENT))
                    => outcome[i].state \in {"ALREADY_CONTACTED", "DOMAIN_INVALID"}
    /\ pc \in {"send", "log"} =>
          ~\E k \in DOMAIN ledger0 :
               ledger0[k] = Row(messages[idx].site, messages[idx].to, STATUS_SENT)

\* C3: every item that ends in a terminal state other than ALREADY_CONTACTED
\* has appended exactly one row and an ALREADY_CONTACTED item none, so a
\* completed run has grown the ledger by (items) - (already contacted).
C3_OneAppendPerItem ==
    /\ \A i \in DOMAIN outcome :
          outcome[i].state \in {"ALREADY_CONTACTED", "SKIPPED_NO_CONTACT",
                                "DOMAIN_INVALID", "SENT", "FAILED"}
    /\ Len(ledger) = Len(ledger0) + Cardinality(Logged(Len(outcome)))
    /\ exit = "summary" =>
          /\ Len(outcome) = Len(messages)
          /\ Len(ledger) - Len(ledger0) = Len(messages) - counts.already_sent_count

C3_Witness ==
    /\ exit = "summary"
    /\ Len(messages) = 2
    /\ outcome[1].state = "ALREADY_CONTACTED"
    /\ outcome[2].state = "SENT"
    /\ Len(ledger) = Len(ledger0) + 1

\* C4: an item with a to_email whose domain fails the syntactic check or
\* the DNS resolution, and which is not passed over as already contacted,
\* ends as DOMAIN_INVALID in the iteration that takes it up: one failed row
\* is appended, one more failed item is counted and the relay is not
\* contacted.  (Not so for an item whose site or address cannot be
\* printed: the print of line 326 raises before the domain is validated,
\* and the run ends with no row for the item.)
C4_InvalidDomainShortCircuits ==
    [][ LET m == messages[idx]
            domain == extract_domain_from_email(m.to)
        IN  ( /\ pc = "loop"
              /\ idx <= Len(messages)
              /\ ~IsAlreadyContacted(m, already_contacted)
              /\ domain # <<>>
              /\ \/ ~domain_pattern(domain)
                 \/ validation'.called /\ validation'.dns \in {"gaierror", "error"} )
            => /\ ledger' = Append(ledger, Row(m.site, m.to, STATUS_FAILED))
               /\ relay' = relay
               /\ send_result' = send_result
               /\ Len(outcome') = Len(outcome) + 1
               /\ SubSeq(outcome', 1, Len(outcome)) = outcome
               /\ outcome'[Len(outcome')].state = "DOMAIN_INVALID"
               /\ counts' = [counts EXCEPT !.failed_count = @ + 1] ]_vars

\* C5 (as claimed): a domain that passes the syntactic check and resolves
\* is accepted whatever the MX lookup does, also when it returns an empty
\* record set.
C5_MxNeverInvalidates ==
    (validation.called /\ domain_pattern(validation.domain) /\ validation.dns = "ok")
        => (validation.ok /\ validation.err = "")

\* C5 (amended): such a domain is accepted when the MX lookup is
\* unavailable, raises or returns records, and rejected for lack of MX
\* records when the lookup returns an empty record set.
C5_MxAdvisoryUnlessEmpty ==
    (validation.called /\ domain_pattern(validation.domain) /\ validation.dns = "ok")
        => IF validation.mx = "empty"
           THEN ~validation.ok /\ validation.err = "no_mx"
           ELSE validation.ok /\ validation.err = ""

C5_Witness ==
    /\ validation.called
    /\ domain_pattern(validation.domain)
    /\ validation.dns = "ok"
    /\ validation.mx = "raises"
    /\ validation.ok
    /\ pc = "send"

\* C6: when send_email contacted the relay and any of its calls raised,
\* whatever the exception, the item ends as FAILED: one failed row is
\* appended, failed_count grows by one and the loop moves to the next item.
C6_SendFailureEndsFailed ==
    [][ ( /\ pc = "log"
          /\ send_result.contact.attempted
          /\ send_result.contact.failed_at # "none" )
        => LET m == messages[idx]
           IN  /\ ledger' = Append(ledger, Row(m.site, m.to, STATUS_FAILED))
               /\ counts' = [counts EXCEPT !.failed_count = @ + 1]
               /\ Len(outcome') = Len(outcome) + 1
               /\ SubSeq(outcome', 1, Len(outcome)) = outcome
               /\ outcome'[Len(outcome')].state = "FAILED"
               /\ idx' = idx + 1
               /\ pc' = "loop" ]_vars

\* C7: the ledger is append-only: every step leaves the previous content as
\* a prefix of the new content.
C7_LedgerAppendOnly == [][IsPrefix(ledger, ledger')]_vars

C7_Witness ==
    /\ Len(ledger0) > 0
    /\ Len(ledger) = Len(ledger0) + 2
    /\ IsPrefix(ledger0, ledger)

\* C8: in every run that enters the loop, every item of the batch reaches a
\* terminal state, however earlier items ended.  (Not so in a run whose
\* relay stays silent: send_email does not return and the run stays at that
\* item.)
C8_BatchNeverAborted ==
    (pc = "loop") ~> (pc = "idle" /\ Len(outcome) = Len(messages))

\* C9: every run that was started eventually prints the summary with its
\* four counts, whatever happened to its items.  The formula states it of
\* the runs that pass the start-up checks (messages file present and not
\* empty, credentials set), a run that ends at one of them prints none.
\* (Not so in a run whose relay stays silent.)
C9_SummaryAfterStartUp ==
    (pc = "loop") ~> ( /\ pc = "idle"
                       /\ summary.printed
                       /\ summary.counts = counts
                       /\ summary.total = Len(messages) )

\* C10: when the summary is printed the four counters add up to the number
\* of items, and sent, failed and skipped each equal the number of rows of
\* that status the run appended.
CountRows(status) == Cardinality({i \in DOMAIN RunRows : RunRows[i].status = status})

C10_CountersPartitionBatch ==
    summary.printed =>
        /\ summary.total = Len(messages)
        /\ summary.counts.sent_count + summary.counts.failed_count
             + summary.counts.skipped_count + summary.counts.already_sent_count
             = Len(messages)
        /\ summary.counts.sent_count = CountRows(STATUS_SENT)
        /\ summary.counts.failed_count = CountRows(STATUS_FAILED)
        /\ summary.counts.skipped_count = CountRows(STATUS_SKIPPED)

C10_Witness ==
    /\ summary.printed
    /\ summary.counts.sent_count = 1
    /\ summary.counts.skipped_count = 1
    /\ Len(RunRows) = 2

\* the contact an item is looked up by: to_email, else contact_form_url
ItemContact(m) == IF m.to # <<>> THEN m.to ELSE m.contact_form_url

\* C11: matching is case-insensitive: when the ledger a run starts from
\* holds a row with status sent or opened (in any letter case), every item
\* of the run whose site and contact (to_email, else contact_form_url)
\* differ from that row's at most in letter case ends as ALREADY_CONTACTED.
C11_CaseInsensitiveMatch ==
    \A i \in DOMAIN outcome :
        LET m == messages[i]
        IN  (/\ ItemContact(m) # <<>>
             /\ \E k \in DOMAIN ledger0 :
                   /\ Lower(ledger0[k].status) \in {STATUS_SENT, STATUS_OPENED}
                   /\ Lower(ledger0[k].site) = Lower(m.site)
                   /\ Lower(ledger0[k].contact) = Lower(ItemContact(m)))
            => outcome[i].state = "ALREADY_CONTACTED"

\* the status of the row written for an item that ended in state
StatusOf(state) ==
    IF state = "SENT" THEN STATUS_SENT
    ELSE IF state = "SKIPPED_NO_CONTACT" THEN STATUS_SKIPPED
    ELSE STATUS_FAILED

\* C12: at every point at which a dispatch run can be interrupted, the rows
\* the run started from are intact and the ledger already holds, in batch
\* order, the row of every item taken to a terminal state other than
\* ALREADY_CONTACTED: the row of item i is in the file before item i+1 is
\* looked at, never held back to the end of the run.
C12_RowsWrittenItemByItem ==
    /\ IsPrefix(ledger0, ledger)
    /\ pc \in {"loop", "send", "log"} => Len(outcome) = idx - 1
    /\ Len(ledger) = Len(ledger0) + Cardinality(Logged(Len(outcome)))
    /\ \A i \in Logged(Len(outcome)) :
          /\ RowOf(i).site = messages[i].site
          /\ RowOf(i).status = StatusOf(outcome[i].state)

\* the second item is on its way to the relay and the first one's failed
\* row is behind the rows the run found
C12_Witness ==
    /\ pc = "send"
    /\ idx = 2
    /\ ledger0 # <<>>
    /\ outcome[1].state = "FAILED"
    /\ ledger = Append(ledger0, Row(messages[1].site, messages[1].to, STATUS_FAILED))

\* C13: every relay connection opened by send_email has been closed with
\* quit() when send_email returns, whether starttls, login and send_message
\* succeeded or one of them raised; no run leaves a connection behind.
C13_RelayAlwaysReleased ==
    /\ relay.leaked = 0
    /\ pc = "log" => ~send_result.contact.leaked

(***************************************************************************)
(* Properties of the sync engine.                                          *)
(***************************************************************************)
\* the ways a run that had connected can end
ConnectedExits == {"no_mail", "nothing_new", "appended", "append_failed", "saved", "error"}

\* C14: a sync run that opened the mailbox session has logged it out when
\* it ends, whichever way it ends: no mail found, nothing new, the file
\* written or appended to, or an error raised while writing it; a session
\* is open only while main is between connecting and leaving.
C14_SessionLoggedOut ==
    /\ sync_pc = "idle" => session # "open"
    /\ sync_pc \in {"search", "process"} => session = "open"
    /\ (sync_pc = "idle" /\ sync_exit \in ConnectedExits) => session = "closed"

\* a run whose write of the new file raised has logged out
C14_Witness ==
    /\ sync_pc = "idle"
    /\ sync_exit = "error"
    /\ sync_log.wrote = "write_error"
    /\ all_emails # <<>>
    /\ session = "closed"

\* the records of a file, in file order: the email_id a record was
\* rendered from and its lines, from the line after its heading (whose
\* numbering is not part of the record) to the separator that closes it
RECURSIVE RecordEnd(_, _)
RecordEnd(lines, i) ==
    IF i >= Len(lines) THEN Len(lines)
    ELSE IF lines[i + 1] = SepLine THEN i + 1
    ELSE RecordEnd(lines, i + 1)

\* the records whose headings are the lines heads
RECURSIVE RecordsFrom(_, _)
RecordsFrom(lines, heads) ==
    IF heads = {} THEN <<>>
    ELSE LET i == Min(heads)
         IN  <<[id |-> HeadingOf(lines[i]).id,
                lines |-> SubSeq(lines, i + 1, RecordEnd(lines, i))]>>
             \o RecordsFrom(lines, heads \ {i})

Records(file) ==
    IF file.exists
    THEN RecordsFrom(file.lines, {i \in DOMAIN file.lines : HeadingOf(file.lines[i]).has})
    ELSE <<>>

\* the email_id each record was rendered from
StoredIds(file) ==
    LET stored == Records(file)
    IN  [k \in DOMAIN stored |-> stored[k].id]

\* the run that just ended had connected, every mailbox and file operation
\* in it succeeded, and it started with the mailbox and the day as the run
\* before it, itself without a failure, had left them
SecondQuietRun ==
    /\ sync_pc = "idle"
    /\ sync_exit \in ConnectedExits
    /\ sync_log.clean
    /\ sync_log.quiet

\* C15: sync is idempotent: a run made with no new mail since the run
\* before it leaves the records of the file as that run left them.
C15_SyncIdempotent ==
    SecondQuietRun => Records(md) = Records(md0)

\* C16: the file never holds two records rendered from the same mailbox
\* message (email_id), after any sequence of sync runs.
C16_NoDuplicateEmailId ==
    \A j, k \in DOMAIN StoredIds(md) : StoredIds(md)[j] = StoredIds(md)[k] => j = k

\* C17: the store is append-only: in every step of a sync run in which no
\* write to the file fails, the records the file held before the step are
\* still in it after the step, unchanged and in the same order, and
\* whatever is new comes after all of them.
C17_StoreAppendOnly ==
    [][sync_log'.wrote \in {"none", "ok"} => IsPrefix(Records(md), Records(md'))]_<<vars, svars>>

\* the records the run that just ended has added to the file
NewRecords ==
    IF sync_exit = "saved" THEN Records(md)
    ELSE IF sync_exit = "appended"
    THEN LET stored == Records(md)
         IN  SubSeq(stored, Len(Records(md0)) + 1, Len(stored))
    ELSE <<>>

\* the number the file reports as its total, 0 when it has none
ReportedTotal(file) == TotalOf(file.lines)

\* the messages of the window that classify as HARO mail and whose id is
\* not in the known-id set
Targets ==
    SelectSeq(sync_log.window,
              LAMBDA id : /\ is_haro_email(mailbox[id].sender, mailbox[id].subject)
                          /\ id \notin requests)

\* those of them that were fetched both times and have a text
Storable ==
    SelectSeq(Targets,
              LAMBDA id : /\ id \notin sync_log.unfetched
                          /\ id \notin sync_log.unprocessed
                          /\ mailbox[id].body # EmptyContent)

\* the record of message id as the file holds it
RecordOf(id) ==
    LET rendered == format_email_for_display(
                        EmailData(id, mailbox[id].date, mailbox[id].subject,
                                  mailbox[id].sender, mailbox[id].body), 0, 0)
    IN  [id |-> id, lines |-> SubSeq(rendered, 2, Len(rendered) - 1)]

\* C18: a sync run stores exactly one new record for each message of the
\* window that classifies as HARO mail and whose id is not known, and
\* nothing else: with N such messages the store gains exactly N records.
\* Stated of the runs in which every mailbox and file operation succeeds,
\* and of the messages that have a text (one without text cannot be
\* rendered and is passed over): after the run the file holds the records
\* it held before the run, followed by one record for each such message.
C18_StoreGainsOneRecordPerMessage ==
    (sync_pc = "idle" /\ sync_exit \in ConnectedExits /\ sync_log.clean)
        => LET storable == Storable
           IN  Records(md) = Records(md0) \o [k \in DOMAIN storable |-> RecordOf(storable[k])]

\* C19: a message whose email_id is in the known-id set main loads at line
\* 711 is never stored by the run, whatever it holds: it is passed over
\* before process_haro_email is called, and no record of the file written
\* by the run comes from it.
C19_KnownIdNeverAppended ==
    /\ \A k \in DOMAIN all_emails : all_emails[k].email_id \notin existing_email_ids
    /\ LET added == NewRecords
       IN  \A k \in DOMAIN added : added[k].id \notin requests
    /\ sync_log.known \cap sync_log.unprocessed = {}

\* a run has passed over message 1, which is HARO mail with a text, as
\* known and has stored message 2
C19_Witness ==
    /\ sync_pc = "idle"
    /\ sync_exit \in {"saved", "appended"}
    /\ sync_log.known = {1}
    /\ mailbox[1].body # EmptyContent
    /\ StoredIds(md) = <<2>>

\* the days of the records of a file whose date parses
RecordDays(file) ==
    LET stored == Records(file)
    IN  {parsedate_to_datetime(stored[k].lines[3].text).day :
            k \in {j \in DOMAIN stored :
                      parsedate_to_datetime(stored[j].lines[3].text).has}}

\* C20: the watermark a run computes is the latest date among the stored
\* records whose date parses, the records whose date does not parse being
\* ignored; when there is one, the search starts on the day after it, and
\* no message the search returns is dated on or before the watermark day.
C20_WatermarkIsLatestRecordDate ==
    sync_pc \in {"search", "process"} =>
        /\ latest_date = IF RecordDays(md0) = {} THEN None ELSE Some(Max(RecordDays(md0)))
        /\ (sync_log.searched /\ latest_date.has) =>
              /\ sync_log.since = latest_date.day + 1
              /\ \A k \in DOMAIN sync_log.window :
                    LET sent == parsedate_to_datetime(mailbox[sync_log.window[k]].date)
                    IN  sent.has => sent.day > latest_date.day

\* a run is under way, or has ended and nothing has moved since
RunInView == sync_pc # "idle" \/ sync_exit # "none"

\* the file is absent, or none of its Date lines holds a date that parses
NoDateParses(file) ==
    \A i \in DOMAIN file.lines :
        file.lines[i].t = "**Date:**" => ~parsedate_to_datetime(file.lines[i].text).has

\* C21: when no watermark can be derived (the file is absent, or every date
\* in it is unparsable), the run does not fail: it is not incremental, its
\* search starts 30 days before now, and it ends in an error only if a
\* write to the file fails.
C21_NoWatermarkFallsBack ==
    (RunInView /\ NoDateParses(md0)) =>
        /\ latest_date = None
        /\ ~is_incremental
        /\ sync_log.searched => sync_log.since = sync_log.now - DaysBack
        /\ sync_exit = "error" => sync_log.wrote \in {"open_error", "write_error"}
        /\ (sync_pc = "idle" /\ sync_log.searched /\ sync_log.wrote \in {"none", "ok"})
              => sync_exit \in {"no_mail", "nothing_new", "saved"}

\* a run over a file whose only record has no date has searched the last 30
\* days and has ended
C21_Witness ==
    /\ sync_pc = "idle"
    /\ md0.exists
    /\ Len(Records(md0)) = 1
    /\ NoDateParses(md0)
    /\ sync_log.searched
    /\ sync_log.since = sync_log.now - DaysBack
    /\ sync_exit \in {"no_mail", "nothing_new", "saved"}

\* every message of the mailbox has a Date header that parses
AllDatesParse ==
    \A i \in DOMAIN mailbox : parsedate_to_datetime(mailbox[i].date).has

\* watermark a is not earlier than watermark b (no watermark is earliest)
NotEarlier(a, b) == b.has => (a.has /\ a.day >= b.day)

\* C22: while the date of every message parses, the watermark is monotonic
\* across runs: the watermark a run computes when it starts is not earlier
\* than the one the run before it computed.
C22_WatermarkMonotonic ==
    [][(sync_run' = sync_run + 1 /\ sync_run > 0 /\ AllDatesParse)
          => NotEarlier(latest_date', latest_date)]_<<vars, svars>>

\* message id of the mailbox classifies as HARO mail
IsTarget(id) ==
    /\ id \in DOMAIN mailbox
    /\ is_haro_email(mailbox[id].sender, mailbox[id].subject)

\* the ids of the window the classifier rejects
Rejected == {id \in Range(sync_log.window) : ~IsTarget(id)}

\* the messages of the mailbox the classifier rejects; it reads the sender
\* and the subject alone, so it is asked once for each pair of the two
RejectedMail ==
    LET pairs == {<<mailbox[i].sender, mailbox[i].subject>> : i \in DOMAIN mailbox}
        rejected == {p \in pairs : ~is_haro_email(p[1], p[2])}
    IN  {i \in DOMAIN mailbox : <<mailbox[i].sender, mailbox[i].subject>> \in rejected}

\* C23: a message the classifier rejects is never stored: every id the
\* search returns, every record the run holds and every record of the file
\* comes from a message of the mailbox that the classifier accepts; a
\* rejected message in the window does not fail the run, which still stores
\* every other message that can be stored.
C23_RejectedNeverStored ==
    LET rejected == RejectedMail
        accepted == (DOMAIN mailbox) \ rejected
    IN  /\ \A k \in DOMAIN haro_email_ids : haro_email_ids[k] \in accepted
        /\ \A k \in DOMAIN all_emails : all_emails[k].email_id \in accepted
        /\ LET stored == Records(md)
           IN  \A k \in DOMAIN stored : stored[k].id \in accepted
        /\ (/\ sync_pc = "idle"
            /\ sync_log.wrote \in {"none", "ok"}
            /\ \E k \in DOMAIN sync_log.window : sync_log.window[k] \in rejected)
              => /\ sync_exit \in ConnectedExits \ {"error", "append_failed"}
                 /\ LET added == NewRecords
                    IN  Range(Storable) \subseteq {added[j].id : j \in DOMAIN added}

\* a run whose window held a rejected message and a digest has stored the
\* digest alone
C23_Witness ==
    /\ sync_pc = "idle"
    /\ sync_exit = "saved"
    /\ Len(sync_log.window) = 2
    /\ Rejected = {1}
    /\ StoredIds(md) = <<2>>

\* C24 as claimed: no fetch of the full message is issued for a message
\* whose email_id is in the known-id set.
C24_NoFetchOfKnownMessage ==
    RunInView =>
        requests \cap (sync_log.classified \cup sync_log.processed) = {}

\* C24, amended: the known-id check comes before the fetch of
\* process_haro_email and before anything is stored: a message whose
\* email_id is known is never fetched by process_haro_email and is never
\* held for writing; the one fetch issued for it is that of
\* search_haro_emails, which fetches every message of the window in full to
\* classify it.
C24_KnownCheckedBeforeProcessing ==
    RunInView =>
        /\ requests \cap sync_log.processed = {}
        /\ \A k \in DOMAIN all_emails : all_emails[k].email_id \notin requests
        /\ sync_log.known \subseteq requests \cap sync_log.classified
        /\ sync_log.classified = Range(sync_log.window)
        /\ sync_log.processed \subseteq sync_log.classified

\* the loop has passed over message 1 as known, after the search had
\* fetched it, and has fetched message 2
C24_Witness ==
    /\ sync_pc = "process"
    /\ sync_log.known = {1}
    /\ 1 \in sync_log.classified
    /\ sync_log.processed = {2}

\* the messages the run that just ended could not read: a fetch of
\* search_haro_emails or of process_haro_email failed, or no text could be
\* decoded from the message
Unreadable ==
    sync_log.unfetched \cup sync_log.unprocessed
    \cup {id \in sync_log.processed : mailbox[id].body = EmptyContent}

\* C25: a failure to fetch or decode one message skips that message only:
\* in a run in which some message could not be read and the write did not
\* fail, every message of the window was still fetched for classification,
\* the search returned every HARO message it could fetch, and every other
\* message that is HARO mail and not known has its record in what the run
\* stored.
C25_FailureSkipsOneMessage ==
    (sync_pc = "idle" /\ Unreadable # {} /\ sync_log.wrote \in {"none", "ok"}) =>
        /\ sync_log.classified = Range(sync_log.window)
        /\ haro_email_ids =
              SelectSeq(sync_log.window,
                        LAMBDA id : IsTarget(id) /\ id \notin sync_log.unfetched)
        /\ \A id \in Range(sync_log.window) \ Unreadable :
              (IsTarget(id) /\ id \notin requests)
                 => LET added == NewRecords
                    IN  \E j \in DOMAIN added : added[j] = RecordOf(id)
        /\ sync_exit \in ConnectedExits \ {"error", "append_failed"}

\* the fetch of message 1 failed and the same run has stored message 2
C25_Witness ==
    /\ sync_pc = "idle"
    /\ sync_exit = "saved"
    /\ Len(sync_log.window) = 2
    /\ 1 \in sync_log.unfetched \cup sync_log.unprocessed
    /\ StoredIds(md) = <<2>>

\* the ways a run ends without a session
FailedConnects == ConnectOutcomes \ {"ok"}

\* C26: a run that cannot connect or authenticate, or has no credentials,
\* ends without writing anything: the step that starts and ends it leaves
\* the markdown file, the requests file and the ledger exactly as they were,
\* and no session is left.
C26_FailedConnectWritesNothing ==
    [][(sync_run' = sync_run + 1 /\ sync_exit' \in FailedConnects)
          => /\ md' = md
             /\ requests' = requests
             /\ ledger' = ledger
             /\ sync_pc' = "idle"
             /\ session' = "none"]_<<vars, svars>>

\* a run over a file of one record could not authenticate and the file is
\* as it was
C26_Witness ==
    /\ sync_pc = "idle"
    /\ sync_exit = "auth_failed"
    /\ Len(Records(md0)) = 1
    /\ md = md0
    /\ sync_log.wrote = "none"

\* C27: when the write or the merge of the markdown file fails in a run that
\* found new messages, the machine-readable store (data/haro_requests.json)
\* holds the records of those messages, and the run ends as a run that
\* ingested them, not as a failed run.
C27_IngestSurvivesRenderFailure ==
    (/\ sync_pc = "idle"
     /\ all_emails # <<>>
     /\ sync_log.wrote \in {"open_error", "write_error"})
        => /\ \A k \in DOMAIN all_emails : all_emails[k].email_id \in requests
           /\ sync_exit \notin {"error", "append_failed"}

\* C28: an item without to_email is never sent.  Unless it is already
\* contacted through its form URL, the iteration that handles it does not
\* go to send_email and leaves the relay alone, adds one to the skipped
\* counter and to no other, and appends exactly one row with status
\* skipped, whose contact is the contact_form_url when the item has one and
\* "N/A" when it has neither.
C28_NoAddressNeverSent ==
    [][(/\ pc = "loop"
        /\ idx <= Len(messages)
        /\ messages[idx].to = <<>>
        /\ ~IsAlreadyContacted(messages[idx], already_contacted))
          => LET m == messages[idx]
                 contact == IF m.contact_form_url # <<>> THEN m.contact_form_url
                            ELSE NOT_AVAILABLE
             IN  /\ pc' = "loop"
                 /\ idx' = idx + 1
                 /\ relay' = relay
                 /\ send_result' = send_result
                 /\ counts' = [counts EXCEPT !.skipped_count = @ + 1]
                 /\ ledger' = Append(ledger, Row(m.site, contact, STATUS_SKIPPED))]_vars

\* the iteration that ends here surfaces the form URL of the item as a
\* fallback (lines 333-334 and 350-351)
SurfacesFallback ==
    /\ Len(outcome') = Len(outcome) + 1
    /\ outcome'[Len(outcome')].hint

\* C29: when an item with a contact_form_url fails for a domain-related
\* reason (the domain does not validate, or the error text of the relay
\* names the domain), the engine does nothing with the fallback: the step
\* that records the failure appends one row with status failed under the
\* email address and nothing under the form URL, makes no send, and moves
\* on to the next item.
C29_FallbackNotActedOn ==
    [][SurfacesFallback
          => LET m == messages[idx]
             IN  /\ m.contact_form_url # <<>>
                 /\ m.to # <<>>
                 /\ outcome'[Len(outcome')].state \in {"DOMAIN_INVALID", "FAILED"}
                 /\ ledger' = Append(ledger, Row(m.site, m.to, STATUS_FAILED))
                 /\ relay' = relay
                 /\ pc' = "loop"
                 /\ idx' = idx + 1
                 /\ counts' = [counts EXCEPT !.failed_count = @ + 1]]_vars

\* every item that failed for a domain-related reason and has a form URL
\* has surfaced it, and the ledger holds no row under a form URL for it
C29_Witness ==
    /\ Len(outcome) = 2
    /\ outcome[1] = Terminal("DOMAIN_INVALID", TRUE)
    /\ outcome[2] = Terminal("FAILED", TRUE)
    /\ RunRows = << Row(messages[1].site, messages[1].to, STATUS_FAILED),
                    Row(messages[2].site, messages[2].to, STATUS_FAILED) >>
    /\ relay.attempts = 1

\* message i is in the mailbox, is HARO mail with a text, is not known, and
\* a run is still to come
Pending(i) ==
    /\ IsTarget(i)
    /\ mailbox[i].body # EmptyContent
    /\ i \notin requests
    /\ CanStart

\* C30: with a reachable mailbox and runs that keep occurring, every HARO
\* message with a text that is delivered to the mailbox is eventually
\* stored by some run, a message delivered on the day of the watermark
\* after the run that established it included.
C30_EveryTargetEventuallyStored ==
    \A i \in 1..MaxMail : Pending(i) ~> (i \in Range(StoredIds(md)))

\* the contact under which the engine writes the row of item m
ContactOf(m) ==
    IF m.to # <<>> THEN m.to
    ELSE IF m.contact_form_url # <<>> THEN m.contact_form_url
    ELSE NOT_AVAILABLE

\* the rows of led that name the pair of item m, whatever the case and the
\* padding
SamePair(m, led) ==
    LET site == Lower(Strip(m.site))
        contact == Lower(Strip(ContactOf(m)))
    IN  {i \in DOMAIN led : /\ Lower(Strip(led[i].site)) = site
                            /\ Lower(Strip(led[i].contact)) = contact}

\* led holds rows for the pair of m, and every one of them has status
\* failed or skipped
OnlyFailedOrSkipped(m, led) ==
    LET same == SamePair(m, led)
    IN  /\ same # {}
        /\ \A i \in same :
              Lower(Strip(led[i].status)) \in {STATUS_FAILED, STATUS_SKIPPED}

\* C31: rows with status failed or skipped never satisfy a pair.  When a
\* run reaches an item whose pair has only failed or skipped rows in the
\* ledger, the item is not passed over as already contacted: the step at
\* the head of the loop either goes on to send_email (after a domain
\* validation that succeeded, when the address has a domain) or ends the
\* item with one more row for the pair; a send_email call that returns is
\* followed by the step that records its result, which appends one more
\* row for the pair.  After the row the loop moves to the next item, or the
\* run ends on an exception raised by the print of the fallback.
C31_FailedRowsNeverSatisfy ==
    [][(pc \in {"loop", "send", "log"} /\ idx <= Len(messages))
          => LET m == messages[idx]
             IN  \/ /\ pc = "send"
                    /\ pc' \in {"log", "blocked"}
                    /\ idx' = idx
                    /\ ledger' = ledger
                 \/ /\ pc # "send"
                    /\ OnlyFailedOrSkipped(m, ledger)
                          => \/ /\ pc = "loop"
                                /\ pc' = "send"
                                /\ idx' = idx
                                /\ ledger' = ledger
                                /\ m.to # <<>>
                                /\ extract_domain_from_email(m.to) # <<>>
                                      => validation'.called
                                /\ validation'.called => validation'.ok
                             \/ /\ \/ pc' = "loop" /\ idx' = idx + 1
                                   \/ pc' = "idle" /\ exit' = "raised"
                                /\ Len(outcome') = Len(outcome) + 1
                                /\ outcome'[Len(outcome')].state # "ALREADY_CONTACTED"
                                /\ pc = "loop" => \/ m.to = <<>>
                                                  \/ validation'.called /\ ~validation'.ok
                                /\ \E st \in {STATUS_SENT, STATUS_FAILED, STATUS_SKIPPED} :
                                      ledger' = Append(ledger, Row(m.site, ContactOf(m), st))]_vars

\* the second run of an item whose send failed in the first: the ledger
\* held one failed row for the pair when the run began, the item was sent,
\* and the pair now has a failed and a sent row
C31_Witness ==
    /\ run = 2
    /\ Len(outcome) >= 1
    /\ OnlyFailedOrSkipped(messages[1], ledger0)
    /\ \E i \in DOMAIN ledger0 :
          ledger0[i] = Row(messages[1].site, messages[1].to, STATUS_FAILED)
    /\ outcome[1].state = "SENT"
    /\ RunRows[1] = Row(messages[1].site, messages[1].to, STATUS_SENT)

\* the rows with status sent that the run has appended so far
SentRowsOfRun == {i \in DOMAIN RunRows : RunRows[i].status = STATUS_SENT}

\* C32: at every point of a run, the number of rows with status sent
\* appended in the run is the number of sends that have succeeded in the
\* run (send_email returned success) or one less; it is one less only
\* between the return of a successful send_email and the append of its row,
\* so every sent row is in the ledger before the next send begins.
C32_SentRowsFollowSends ==
    LET rows == Cardinality(SentRowsOfRun)
    IN  /\ rows <= relay.succeeded
        /\ relay.succeeded <= rows + 1
        /\ relay.succeeded = rows + 1 => pc = "log" /\ send_result.success
        /\ pc \in {"send", "idle"} => relay.succeeded = rows

\* the second send of a run has succeeded and its row is still to be
\* appended: two successful sends, one sent row
C32_Witness ==
    /\ pc = "log"
    /\ send_result.success
    /\ relay.succeeded = 2
    /\ Cardinality(SentRowsOfRun) = 1
    /\ RunRows[1].status = STATUS_SENT

\* C33: a run that finds SMTP_USER or SMTP_PASSWORD missing handles no
\* item: it returns from the credentials check with the ledger as it was,
\* the relay not contacted, no domain validated, no counter moved and no
\* item brought to a terminal state, whatever the items are, those without
\* to_email included.
C33_NoCredentialsNoProcessing ==
    (run > 0 /\ ~configured)
       => /\ pc = "idle"
          /\ exit \in {"no_file", "no_messages", "no_credentials"}
          /\ ledger = ledger0
          /\ relay = NoRelay
          /\ validation = NoValidation
          /\ send_result = NoResult
          /\ counts = ZeroCounts
          /\ outcome = <<>>
          /\ ~summary.printed

\* a run without credentials has returned, with a batch that holds an item
\* without to_email and an item with one
C33_Witness ==
    /\ exit = "no_credentials"
    /\ ~configured
    /\ Len(messages) = 2
    /\ messages[1].to = <<>>
    /\ messages[1].contact_form_url # <<>>
    /\ messages[2].to # <<>>
    /\ ledger = ledger0

\* to_email is present and is not a well-formed address: it has no "@", or
\* it does not match the address pattern of send_email
NotWellFormed(to_email) ==
    /\ to_email # <<>>
    /\ \/ "@" \notin Range(to_email)
       \/ ~email_pattern(to_email)

\* C34: an item whose to_email is not a well-formed address, and which is
\* not passed over as already contacted, never reaches the relay and ends
\* with exactly one row with status failed and one more failed item
\* counted.  When no domain can be extracted from the address, no domain
\* validation is made and the item goes to send_email; when a domain is
\* extracted, it is validated, and the item fails there or goes to
\* send_email.  send_email refuses the address without contacting the
\* relay.  No run ends on an exception at such an item before the item
\* has its row.  (Not so for an address that cannot be printed: the print
\* of line 338 raises, and the run ends with no row for the item.)
C34_MalformedAddressFails ==
    LET bad == {i \in DOMAIN messages : NotWellFormed(messages[i].to)}
        done == DOMAIN outcome
        failed == {i \in done : outcome[i].state \in {"FAILED", "DOMAIN_INVALID"}}
        called == {i \in done : outcome[i].state \in {"SENT", "FAILED"}}
                  \cup (IF pc \in {"log", "blocked"} THEN {idx} ELSE {})
    IN  /\ \A i \in bad \cap done :
              outcome[i].state # "ALREADY_CONTACTED"
                 => /\ i \in failed
                    /\ RowOf(i) = Row(messages[i].site, messages[i].to, STATUS_FAILED)
        /\ Len(ledger) = Len(ledger0) + Cardinality(Logged(Len(outcome)))
        /\ exit # "raised" => counts.failed_count = Cardinality(failed)
        /\ relay.attempts <= Cardinality(called \ bad)
        /\ (pc = "idle" /\ exit = "raised" /\ idx \in bad) => idx \in done
        /\ (pc \in {"send", "log"} /\ idx \in bad)
              => /\ pc = "send" =>
                       /\ validation.called
                             = (extract_domain_from_email(messages[idx].to) # <<>>)
                       /\ validation.called => validation.ok
                 /\ pc = "log" =>
                       /\ ~send_result.success
                       /\ send_result.contact = NoContact

\* the step ends the current item as already contacted
PassedOver ==
    /\ Len(outcome') = Len(outcome) + 1
    /\ outcome'[Len(outcome')].state = "ALREADY_CONTACTED"

\* C35: the already-contacted check of an item looks up exactly one key.
\* An item with a to_email is passed over exactly when (site, to_email),
\* lower-cased, is in the dict of contacted pairs, whatever the dict holds
\* for its contact_form_url; an item without to_email and with a form URL
\* exactly when (site, contact_form_url) is; an item with neither is never
\* passed over.  So a sent or opened row under the form URL of an item that
\* has a to_email does not keep the item from domain validation and send
\* (the iteration goes on to one of them, unless it ends on an exception
\* raised by the print that comes before).
C35_OneKeyPerItem ==
    [][(pc = "loop" /\ idx <= Len(messages))
          => LET m == messages[idx]
                 by_email == <<Lower(m.site), Lower(m.to)>>
                 by_form == <<Lower(m.site), Lower(m.contact_form_url)>>
             IN  /\ m.to # <<>> =>
                       /\ PassedOver <=> by_email \in DOMAIN already_contacted
                       /\ by_email \notin DOMAIN already_contacted
                             => validation'.called \/ pc' = "send" \/ exit' = "raised"
                 /\ (m.to = <<>> /\ m.contact_form_url # <<>>) =>
                       (PassedOver <=> by_form \in DOMAIN already_contacted)
                 /\ (m.to = <<>> /\ m.contact_form_url = <<>>) => ~PassedOver]_vars

\* the ledger holds an opened row under the form URL of both items of the
\* batch: the item without to_email was passed over, the item with a
\* to_email was sent and has its sent row under the email address
C35_Witness ==
    /\ Len(outcome) = 2
    /\ <<Lower(SiteAc), Lower(FormUrl)>> \in DOMAIN already_contacted
    /\ messages[1] = Item(SiteAc, <<>>, FormUrl)
    /\ messages[2] = Item(SiteAc, MailAB, FormUrl)
    /\ outcome[1].state = "ALREADY_CONTACTED"
    /\ outcome[2].state = "SENT"
    /\ relay.delivered = 1
    /\ RunRows = <<Row(SiteAc, MailAB, STATUS_SENT)>>
====
